---- MODULE Spec2Model ----
(***************************************************************************)
(* Model of the LLM profile page (src/unnamed/part_004, ProfilesPage): the *)
(* variation-matrix compiler, the profile descriptor builder, the          *)
(* candidate evaluator, the coordinate-descent optimizer (autoTuneSingle)  *)
(* and the multi-prompt aggregator (runAutoTune), together with the manual *)
(* benchmark submit (handleSubmit), which shares the benchmark endpoint,   *)
(* and the profile generator (handleGenerateProfiles).                     *)
(*                                                                         *)
(* Spec is the auto mode alone; SpecPage runs the manual benchmark and the *)
(* generator next to it.  SpecClimb and SpecCascade follow the first run   *)
(* of the auto mode for inputs whose numeric axis is refined.  SpecApply   *)
(* takes the apply buttons (handleApplyProfileToConfig) on the pages that  *)
(* the auto mode publishes.  SpecCalls applies cartesianProduct,           *)
(* applyOverrides and profileFormToDescriptor to arguments of their own.   *)
(*                                                                         *)
(* Strings that the code parses as numbers are records: a decimal literal  *)
(* keeps its numeric value (in 1/10000) and the number of fractional       *)
(* digits it was written with, so "0.5" and "0.50" are different texts     *)
(* with the same Number().  Mean latencies are kept in 1/60 ms so that the *)
(* mean of up to five integer latencies is exact.                          *)
(***************************************************************************)
EXTENDS Integers, Sequences, FiniteSets, TLC

(***************************************************************************)
(* Texts                                                                   *)
(***************************************************************************)
\* a text that Number() does not parse (Number gives NaN); "" is the empty string
Word(s) == [s |-> s, v |-> 0, d |-> -1]
\* a decimal literal of value v/10000 written with d fractional digits
Dec(v, d) == [s |-> "", v |-> v, d |-> d]
Empty == Word("")

\* 1.0 in the fixed-point scale of Dec
Unit == 100 * 100

\* Scale of mean latencies: averageLatency is held in 1/60 ms
AvgScale == 6 * 10

\* Number(text): finite for decimal literals and for the empty string (0)
NumberIsFinite(x) == x.d >= 0 \/ x = Empty
NumberOf(x) == IF x.d >= 0 THEN x.v ELSE 0

\* String.prototype.trim on a token of the model: tokens carry no white space
Trim(x) == x

\* String.prototype.toLowerCase on the key names the inputs use
ToLowerCase(s) ==
  CASE s = "Temperature" -> "temperature"
    [] s = "Speculative" -> "speculative"
    [] s = "TOP_K" -> "top_k"
    [] OTHER -> s

Min(a, b) == IF a < b THEN a ELSE b
Max(a, b) == IF a > b THEN a ELSE b
Abs(a) == IF a < 0 THEN -a ELSE a

RECURSIVE SumSeq(_)
SumSeq(s) == IF s = <<>> THEN 0 ELSE Head(s) + SumSeq(Tail(s))

Range(s) == {s[i] : i \in DOMAIN s}

(***************************************************************************)
(* Program constants                                                       *)
(***************************************************************************)
MAX_AUTO_PROFILES == 24
FINE_STEPS == <<Unit, Unit \div 2, Unit \div 4, Unit \div 10, Unit \div 20, Unit \div 100>>
OPTION_KEYS == <<"temperature", "top_p", "top_k", "repeat_penalty", "max_tokens">>
SETTING_KEYS == <<"llm_model_path", "llm_speculative_model_path", "llm_context_tokens",
                  "llm_n_gpu_layers", "llm_speculative_context_tokens",
                  "llm_speculative_n_gpu_layers", "chat_system_prompt">>

emptyOptions == [k \in Range(OPTION_KEYS) |-> Empty]
emptySettings == [k \in Range(SETTING_KEYS) |-> Empty]

createProfile(id, name, description, options) ==
  [id |-> id, name |-> name, description |-> description, samples |-> Dec(Unit, 0),
   speculative |-> FALSE, options |-> options, settings |-> emptySettings]

(***************************************************************************)
(* Loose parsers                                                           *)
(***************************************************************************)
Undefined == [ok |-> FALSE, n |-> 0]
Num(n) == [ok |-> TRUE, n |-> n]

\* Math.trunc of a fixed-point number (towards zero), still in 1/10000
Trunc(v) == IF v >= 0 THEN (v \div Unit) * Unit ELSE -(((-v) \div Unit) * Unit)

parseFloatLoose(value) ==
  IF Trim(value) = Empty THEN Undefined
  ELSE IF NumberIsFinite(Trim(value)) THEN Num(NumberOf(Trim(value))) ELSE Undefined

parseIntLoose(value) ==
  IF Trim(value) = Empty THEN Undefined
  ELSE IF NumberIsFinite(Trim(value)) THEN Num(Trunc(NumberOf(Trim(value)))) ELSE Undefined

normalizeKey(key) == ToLowerCase(key)

\* [ok |-> FALSE] stands for the thrown Error('Valeur booleenne invalide')
coerceBoolean(value) ==
  LET lowered == IF value.d >= 0 THEN value ELSE Word(ToLowerCase(value.s)) IN
  IF lowered \in {Dec(Unit, 0), Word("true"), Word("oui"), Word("yes"), Word("on")}
    THEN [ok |-> TRUE, b |-> TRUE]
  ELSE IF lowered \in {Dec(0, 0), Word("false"), Word("non"), Word("no"), Word("off")}
    THEN [ok |-> TRUE, b |-> FALSE]
  ELSE [ok |-> FALSE, b |-> FALSE]

\* the sample count as an integer 1..5
normaliseSamples(value) ==
  LET parsed == parseIntLoose(value) IN
  IF ~parsed.ok \/ parsed.n < Unit THEN 1
  ELSE IF parsed.n > 5 * Unit THEN 5
  ELSE parsed.n \div Unit

\* String(n) of a non-negative integer
IntText(n) == Dec(n * Unit, 0)

\* Number(value).toString() for a finite number, value.trim() otherwise
normalizeValueKey(value) ==
  IF NumberIsFinite(value) THEN [num |-> TRUE, v |-> NumberOf(value), s |-> ""]
  ELSE [num |-> FALSE, v |-> 0, s |-> Trim(value).s]

\* Number.prototype.toFixed(decimals) of v/10000, decimals in 2..3; a tie is
\* rounded up, as toFixed does for a binary-exact operand
toFixed(v, decimals) ==
  LET q == IF decimals = 3 THEN 10 ELSE 100
      r == ((2 * v + q) \div (2 * q)) * q
  IN Dec(r, decimals)

(***************************************************************************)
(* Variation Matrix Compiler                                               *)
(***************************************************************************)
EQ == Word("=")
COMMA == Word(",")

\* String.prototype.split(sep) on a text given as a sequence of tokens: the
\* pieces between the separators, each a (possibly empty) sequence of tokens
RECURSIVE SplitFrom(_, _, _)
SplitFrom(tokens, sep, piece) ==
  IF tokens = <<>> THEN <<piece>>
  ELSE IF Head(tokens) = sep THEN <<piece>> \o SplitFrom(Tail(tokens), sep, <<>>)
  ELSE SplitFrom(Tail(tokens), sep, Append(piece, Head(tokens)))

Split(tokens, sep) == SplitFrom(tokens, sep, <<>>)

\* the text of a piece: the inputs never put two words side by side
PieceText(piece) == IF piece = <<>> THEN Empty ELSE piece[1]

NonEmptyText(x) == x # Empty
NonEmptyLine(line) == line # <<>>

\* the body of the loop of parseVariationInput for one line: the definition,
\* or the thrown error
parseLine(line) ==
  LET parts == Split(line, EQ)
      rawKey == PieceText(parts[1])
  IN IF rawKey = Empty \/ Len(parts) < 2
       THEN [ok |-> FALSE, error |-> "Ligne invalide", def |-> <<>>]
     ELSE LET rawValues == parts[2]
              pieces == Split(rawValues, COMMA)
              values == SelectSeq([i \in 1..Len(pieces) |-> Trim(PieceText(pieces[i]))],
                                  NonEmptyText)
          IN IF values = <<>>
               THEN [ok |-> FALSE, error |-> "Aucune valeur specifiee", def |-> <<>>]
             ELSE [ok |-> TRUE, error |-> "",
                   def |-> [key |-> normalizeKey(rawKey.s), label |-> Trim(rawKey).s,
                            values |-> values]]

RECURSIVE parseLines(_, _)
parseLines(lines, result) ==
  IF lines = <<>> THEN [ok |-> TRUE, error |-> "", defs |-> result]
  ELSE LET one == parseLine(Head(lines)) IN
       IF ~one.ok THEN [ok |-> FALSE, error |-> one.error, defs |-> <<>>]
       ELSE parseLines(Tail(lines), Append(result, one.def))

\* raw is the text as its sequence of lines
parseVariationInput(raw) == parseLines(SelectSeq(raw, NonEmptyLine), <<>>)

\* { ...combo, [key]: value } on a combination held as its ordered entries
SetEntry(combo, key, value) ==
  IF \E i \in DOMAIN combo : combo[i].key = key
    THEN [i \in DOMAIN combo |->
            IF combo[i].key = key THEN [key |-> key, value |-> value] ELSE combo[i]]
  ELSE Append(combo, [key |-> key, value |-> value])

RECURSIVE ExtendCombos(_, _)
ExtendCombos(acc, def) ==
  IF acc = <<>> THEN <<>>
  ELSE [i \in 1..Len(def.values) |-> SetEntry(Head(acc), def.key, def.values[i])]
       \o ExtendCombos(Tail(acc), def)

RECURSIVE ReduceCombos(_, _)
ReduceCombos(defs, acc) ==
  IF defs = <<>> THEN acc ELSE ReduceCombos(Tail(defs), ExtendCombos(acc, Head(defs)))

cartesianProduct(defs) == IF defs = <<>> THEN << <<>> >> ELSE ReduceCombos(defs, << <<>> >>)

(***************************************************************************)
(* Profile Descriptor Builder                                              *)
(***************************************************************************)
cloneProfile(profile, id) ==
  [id |-> id, name |-> profile.name, description |-> profile.description,
   samples |-> profile.samples, speculative |-> profile.speculative,
   options |-> profile.options, settings |-> profile.settings]

\* the callback of the forEach of applyOverrides for one entry: the profile
\* after the entry, or the thrown error
applyEntry(next, entry) ==
  LET key == normalizeKey(entry.key)
      value == Trim(entry.value)
  IN IF value = Empty THEN [ok |-> TRUE, error |-> "", profile |-> next]
     ELSE IF key = "speculative" THEN
       LET b == coerceBoolean(value) IN
       IF b.ok THEN [ok |-> TRUE, error |-> "", profile |-> [next EXCEPT !.speculative = b.b]]
       ELSE [ok |-> FALSE, error |-> "Valeur booleenne invalide", profile |-> next]
     ELSE IF key = "samples" THEN
       [ok |-> TRUE, error |-> "",
        profile |-> [next EXCEPT !.samples = IntText(normaliseSamples(value))]]
     ELSE IF key \in Range(OPTION_KEYS) THEN
       [ok |-> TRUE, error |-> "", profile |-> [next EXCEPT !.options[key] = value]]
     ELSE IF key \in Range(SETTING_KEYS) THEN
       [ok |-> TRUE, error |-> "", profile |-> [next EXCEPT !.settings[key] = value]]
     ELSE [ok |-> FALSE, error |-> "Champ inconnu", profile |-> next]

RECURSIVE applyEntries(_, _)
applyEntries(next, entries) ==
  IF entries = <<>> THEN [ok |-> TRUE, error |-> "", profile |-> next]
  ELSE LET one == applyEntry(next, Head(entries)) IN
       IF ~one.ok THEN one ELSE applyEntries(one.profile, Tail(entries))

\* id is the identifier createId() hands to the copy; nameSuffix "" is none
applyOverrides(profile, overrides, nameSuffix, id) ==
  LET copy == cloneProfile(profile, id)
      next == IF nameSuffix # ""
                THEN [copy EXCEPT !.name =
                        (IF profile.name = <<>> THEN <<"Profil">> ELSE profile.name)
                        \o <<nameSuffix>>]
              ELSE copy
  IN applyEntries(next, overrides)

\* a descriptor field that is present with value n, or absent
Present(n) == [set |-> TRUE, n |-> n, t |-> Empty]
PresentText(x) == [set |-> TRUE, n |-> 0, t |-> x]
Absent == [set |-> FALSE, n |-> 0, t |-> Empty]
\* a builder that writes the field whatever the parser gave: undefined becomes 0
FromParsedOrZero(p) == Present(p.n)

FromParsed(p) == IF p.ok THEN Present(p.n) ELSE Absent

FromText(x) == IF Trim(x) # Empty THEN PresentText(Trim(x)) ELSE Absent

profileFormToDescriptor(profile, index) ==
  [name |-> IF profile.name # <<>> THEN profile.name ELSE <<"Profil", ToString(index + 1)>>,
   description |-> profile.description,
   samples |-> normaliseSamples(profile.samples),
   settings |->
     [llm_speculative_enabled |-> profile.speculative,
      llm_model_path |-> FromText(profile.settings["llm_model_path"]),
      llm_speculative_model_path |-> FromText(profile.settings["llm_speculative_model_path"]),
      llm_context_tokens |-> FromParsed(parseIntLoose(profile.settings["llm_context_tokens"])),
      llm_n_gpu_layers |-> FromParsed(parseIntLoose(profile.settings["llm_n_gpu_layers"])),
      llm_speculative_context_tokens |->
        FromParsed(parseIntLoose(profile.settings["llm_speculative_context_tokens"])),
      llm_speculative_n_gpu_layers |->
        FromParsed(parseIntLoose(profile.settings["llm_speculative_n_gpu_layers"])),
      chat_system_prompt |-> FromText(profile.settings["chat_system_prompt"])],
   options |->
     [temperature |-> FromParsed(parseFloatLoose(profile.options["temperature"])),
      top_p |-> FromParsed(parseFloatLoose(profile.options["top_p"])),
      top_k |-> FromParsed(parseIntLoose(profile.options["top_k"])),
      repeat_penalty |-> FromParsed(parseFloatLoose(profile.options["repeat_penalty"])),
      max_tokens |-> FromParsed(parseIntLoose(profile.options["max_tokens"]))]]

(***************************************************************************)
(* Candidate Evaluator                                                     *)
(***************************************************************************)
\* a ProfileRun: its latency in ms, or a latency that is not a finite number
Run(ms) == [latency_ms |-> ms, finite |-> TRUE]
RunNotFinite == [latency_ms |-> 0, finite |-> FALSE]

IsFiniteRun(run) == run.finite

RECURSIVE MinSeq(_)
MinSeq(s) == IF Len(s) = 1 THEN s[1] ELSE Min(Head(s), MinSeq(Tail(s)))
RECURSIVE MaxSeq(_)
MaxSeq(s) == IF Len(s) = 1 THEN s[1] ELSE Max(Head(s), MaxSeq(Tail(s)))

\* averageLatency is in 1/60 ms; the token means and the deviation are left out
computeStats(profile) ==
  LET finiteRuns == SelectSeq(profile.runs, IsFiniteRun)
      latencies == [i \in 1..Len(finiteRuns) |-> finiteRuns[i].latency_ms]
      runs == Len(latencies)
  IN [averageLatency |-> IF runs > 0 THEN (SumSeq(latencies) * AvgScale) \div runs ELSE 0,
      minLatency |-> IF runs > 0 THEN MinSeq(latencies) ELSE 0,
      maxLatency |-> IF runs > 0 THEN MaxSeq(latencies) ELSE 0,
      runs |-> runs]

\* a success test that no answer fails
IsSuccessAlways(candidate, stats) == TRUE

\* the success test of evaluateCandidate
IsSuccess(candidate, stats) == Len(candidate.runs) > 0 /\ stats.averageLatency > 0

\* Math.round of a mean latency, in ms
RoundMs(avg) == (2 * avg + AvgScale) \div (2 * AvgScale)

(***************************************************************************)
(* Sorting (Array.prototype.sort is stable)                                *)
(***************************************************************************)
\* insert entry [k, x] after the entries whose key is <= k
RECURSIVE InsertByKey(_, _)
InsertByKey(sorted, e) ==
  IF sorted = <<>> THEN <<e>>
  ELSE IF Head(sorted).k <= e.k THEN <<Head(sorted)>> \o InsertByKey(Tail(sorted), e)
  ELSE <<e>> \o sorted

RECURSIVE SortEntries(_, _)
SortEntries(entries, sorted) ==
  IF entries = <<>> THEN sorted
  ELSE SortEntries(Tail(entries), InsertByKey(sorted, Head(entries)))

\* records sorted by ascending averageLatency
SortByLatency(records) ==
  LET sorted == SortEntries([i \in DOMAIN records |->
                     [k |-> records[i].stats.averageLatency, x |-> records[i]]], <<>>)
  IN [i \in DOMAIN sorted |-> sorted[i].x]

\* steps sorted by descending improvement
SortByImprovement(steps) ==
  LET sorted == SortEntries([i \in DOMAIN steps |->
                     [k |-> -steps[i].improvement, x |-> steps[i]]], <<>>)
  IN [i \in DOMAIN sorted |-> sorted[i].x]

RECURSIVE SortInts(_, _)
SortInts(set, sorted) ==
  IF set = {} THEN sorted
  ELSE LET least == CHOOSE x \in set : \A y \in set : x <= y IN
       SortInts(set \ {least}, Append(sorted, least))

\* Array.from(new Set(seq)): the first occurrence of each element, in order
RECURSIVE Dedup(_, _)
Dedup(seq, kept) ==
  IF seq = <<>> THEN kept
  ELSE IF Head(seq) \in Range(kept) THEN Dedup(Tail(seq), kept)
  ELSE Dedup(Tail(seq), Append(kept, Head(seq)))

(***************************************************************************)
(* Coordinate-Descent Optimizer: autoTuneSingle                            *)
(*                                                                         *)
(* The activation of autoTuneSingle is a record m of its local variables;  *)
(* m.pc is the place where it stands.  Between two awaits the function     *)
(* runs without interruption: Advance runs the loop heads until the next   *)
(* await ("baseline", "await"), a thrown error ("threw") or line 817       *)
(* ("return").  m.nextId is the supply of createId.  m.requests is the     *)
(* history of the candidate requests issued, kept for the properties.      *)
(***************************************************************************)
GUARD_LIMIT == 10

NoResult == [name |-> <<>>, samples |-> 0, runs |-> <<>>, errors |-> <<>>]
NoStats == [averageLatency |-> 0, minLatency |-> 0, maxLatency |-> 0, runs |-> 0]
NoProfile == createProfile(0, <<>>, <<>>, emptyOptions)
NoOrigin == [kind |-> "", direction |-> 0, step |-> 0]
NoPending == [candidateProfile |-> NoProfile, parameterLabel |-> "", valueLabel |-> Empty,
              origin |-> NoOrigin, valueKey |-> normalizeValueKey(Empty), from |-> ""]

SPECULATIVE_DEF == [key |-> "speculative", label |-> "Mode speculatif",
                    values |-> <<Word("false"), Word("true")>>]

\* the declared axes as they are, with no axis added
DeclaredOnly(defs) == defs

\* lines 641-650: the speculative axis is appended when none is declared
WithSpeculative(defs) ==
  IF \E i \in DOMAIN defs : defs[i].key = "speculative" THEN defs
  ELSE Append(defs, SPECULATIVE_DEF)

\* lines 651-682: the locals of autoTuneSingle once the text is compiled
Activation(targetPrompt, defs, baseProfile, nextId) ==
  [pc |-> IF defs = <<>> THEN "threw" ELSE "baseline",
   error |-> IF defs = <<>> THEN "Aucun parametre a optimiser" ELSE "",
   nextId |-> nextId,
   targetPrompt |-> targetPrompt,
   defs |-> defs,
   keysForReport |-> Dedup([i \in DOMAIN defs |-> defs[i].key] \o <<"speculative">>, <<>>),
   baseProfile |-> baseProfile,
   baselineResult |-> NoResult, baselineStats |-> NoStats,
   bestProfileForm |-> baseProfile, bestResult |-> NoResult, bestStats |-> NoStats,
   steps |-> <<>>, candidateRecords |-> <<>>,
   defIdx |-> 1, testedValues |-> {}, valueIdx |-> 1,
   initialStep |-> 0, stepCandidates |-> <<>>, stepIdx |-> 1,
   improved |-> FALSE, guard |-> 0, currentBest |-> 0, dirIdx |-> 1,
   pending |-> NoPending, last |-> [candidate |-> NoResult, stats |-> NoStats, success |-> FALSE],
   requests |-> <<>>]

\* the activation that ends at once with the error thrown by the compiler
Thrown(activation, error) == [activation EXCEPT !.pc = "threw", !.error = error]

CompiledStart(parsed, targetPrompt, base, nextId) ==
  IF ~parsed.ok THEN Thrown(Activation(targetPrompt, <<>>, base, nextId), parsed.error)
  ELSE Activation(targetPrompt, WithSpeculative(parsed.defs), cloneProfile(base, nextId),
                  nextId + 1)

\* lines 640-659: the activation up to the baseline request, or the thrown error
StartSingle(targetPrompt, matrix, base, nextId) ==
  CompiledStart(parseVariationInput(matrix), targetPrompt, base, nextId)

\* lines 665-682: the baseline response has arrived
AfterBaseline(m, baselineResult) ==
  LET baselineStats == computeStats(baselineResult) IN
  [m EXCEPT !.pc = "def",
            !.baselineResult = baselineResult, !.baselineStats = baselineStats,
            !.bestResult = baselineResult, !.bestStats = baselineStats,
            !.candidateRecords = <<[profile |-> baselineResult, stats |-> baselineStats,
                                    profileForm |-> m.baseProfile, parameter |-> <<"Baseline">>,
                                    value |-> Word("initial"), prompt |-> m.targetPrompt]>>]

\* lines 696-718: evaluateCandidate after its await
AfterEvaluate(m, candidate) ==
  LET stats == computeStats(candidate)
      success == IsSuccess(candidate, stats)
      improvement == m.bestStats.averageLatency - stats.averageLatency
      step == [parameter |-> <<m.pending.parameterLabel>>,
               value |-> [label |-> m.pending.valueLabel, origin |-> m.pending.origin],
               stats |-> stats, success |-> success, errors |-> candidate.errors,
               improvement |-> improvement]
      record == [profile |-> candidate, stats |-> stats,
                 profileForm |-> m.pending.candidateProfile,
                 parameter |-> <<m.pending.parameterLabel>>,
                 value |-> m.pending.valueLabel, prompt |-> m.targetPrompt]
  IN [m EXCEPT !.steps = Append(@, step),
               !.candidateRecords = IF success THEN Append(@, record) ELSE @,
               !.last = [candidate |-> candidate, stats |-> stats, success |-> success]]

\* an adoption test that takes every successful candidate
IsBetterAlways(result, bestStats) == result.success

\* an adoption test that also takes a successful candidate that is as fast
IsBetterOrEqual(result, bestStats) ==
  result.success /\ result.stats.averageLatency <= bestStats.averageLatency

\* the adoption test of lines 742-743 and 805
IsBetter(result, bestStats) ==
  result.success /\ result.stats.averageLatency < bestStats.averageLatency

Adopt(m) ==
  [m EXCEPT !.bestStats = m.last.stats, !.bestResult = m.last.candidate,
            !.bestProfileForm = m.pending.candidateProfile]

\* lines 737-749: the sweep after evaluateCandidate
AfterSweepEval(m) ==
  LET tested == [m EXCEPT !.testedValues = @ \cup {m.pending.valueKey},
                          !.valueIdx = @ + 1, !.pc = "sweep", !.pending = NoPending]
  IN IF IsBetter(m.last, m.bestStats)
       THEN [Adopt(m) EXCEPT !.testedValues = tested.testedValues, !.valueIdx = tested.valueIdx,
                             !.pc = "sweep", !.pending = NoPending]
     ELSE tested

\* lines 800-812: the refinement after evaluateCandidate
AfterRefineEval(m) ==
  IF IsBetter(m.last, m.bestStats)
    THEN [Adopt(m) EXCEPT !.testedValues = @ \cup {m.pending.valueKey},
                          !.improved = TRUE, !.pc = "while", !.pending = NoPending]
  ELSE [m EXCEPT !.testedValues = @ \cup {m.pending.valueKey},
                 !.dirIdx = @ + 1, !.pc = "dir", !.pending = NoPending]

\* a probe whose candidate is built on the base profile of the run, whatever
\* the earlier evaluations have found
ProbeFromBase(m, value, valueKey, origin, from) ==
  LET def == m.defs[m.defIdx]
      label == IF def.label # "" THEN def.label ELSE def.key
      built == applyOverrides(m.baseProfile, <<[key |-> def.key, value |-> value]>>,
                              "", m.nextId)
  IN IF ~built.ok
       THEN [m EXCEPT !.pc = "threw", !.error = built.error, !.nextId = @ + 1]
     ELSE [m EXCEPT !.pc = "await", !.nextId = @ + 1,
                    !.pending = [candidateProfile |-> built.profile, parameterLabel |-> label,
                                 valueLabel |-> value, origin |-> origin,
                                 valueKey |-> valueKey, from |-> from],
                    !.requests = Append(@, [def |-> m.defIdx, value |-> value,
                                            descriptor |-> profileFormToDescriptor(built.profile, 0),
                                            from |-> from, step |-> m.stepIdx,
                                            guard |-> m.guard])]

\* lines 690-695 reached from the sweep or the refinement: the candidate is built
\* by applyOverrides (which may throw) and evaluateCandidate stops at its await
Probe(m, value, valueKey, origin, from) ==
  LET def == m.defs[m.defIdx]
      label == IF def.label # "" THEN def.label ELSE def.key
      built == applyOverrides(m.bestProfileForm, <<[key |-> def.key, value |-> value]>>,
                              "", m.nextId)
  IN IF ~built.ok
       THEN [m EXCEPT !.pc = "threw", !.error = built.error, !.nextId = @ + 1]
     ELSE [m EXCEPT !.pc = "await", !.nextId = @ + 1,
                    !.pending = [candidateProfile |-> built.profile, parameterLabel |-> label,
                                 valueLabel |-> value, origin |-> origin,
                                 valueKey |-> valueKey, from |-> from],
                    !.requests = Append(@, [def |-> m.defIdx, value |-> value,
                                            descriptor |-> profileFormToDescriptor(built.profile, 0),
                                            from |-> from, step |-> m.stepIdx,
                                            guard |-> m.guard])]

\* lines 721-730: the head of the loop over the definitions
ForDef(m) ==
  IF m.defIdx > Len(m.defs) THEN [m EXCEPT !.pc = "return"]
  ELSE [m EXCEPT !.pc = "sweep", !.testedValues = {}, !.valueIdx = 1]

NextDef(m) == [m EXCEPT !.defIdx = @ + 1, !.pc = "def"]

\* a sweep that does not look up testedValues
ForValueUntested(m) ==
  LET def == m.defs[m.defIdx] IN
  IF m.valueIdx > Len(def.values) THEN [m EXCEPT !.pc = "infer"]
  ELSE Probe(m, def.values[m.valueIdx], normalizeValueKey(def.values[m.valueIdx]),
             NoOrigin, "sweep")

\* lines 732-736: the head of the discrete sweep
ForValue(m) ==
  LET def == m.defs[m.defIdx] IN
  IF m.valueIdx > Len(def.values) THEN [m EXCEPT !.pc = "infer"]
  ELSE LET rawValue == def.values[m.valueIdx]
           valueKey == normalizeValueKey(rawValue)
       IN IF valueKey \in m.testedValues THEN [m EXCEPT !.valueIdx = @ + 1]
          ELSE Probe(m, rawValue, valueKey, NoOrigin, "sweep")

\* lines 757-768: the step inferred from the sorted numeric values
RECURSIVE FirstDiff(_, _)
FirstDiff(numericValues, index) ==
  IF index > Len(numericValues) THEN 0
  ELSE LET diff == Abs(numericValues[index] - numericValues[index - 1]) IN
       IF diff > 0 THEN diff ELSE FirstDiff(numericValues, index + 1)

InitialStep(numericValues) ==
  LET diff == FirstDiff(numericValues, 2) IN
  IF diff # 0 THEN diff
  ELSE LET baseValue == IF Abs(numericValues[1]) # 0 THEN Abs(numericValues[1]) ELSE Unit IN
       IF baseValue >= Unit THEN Unit ELSE NumberOf(toFixed(baseValue \div 2, 3))

\* lines 770-772
IsPositive(x) == x > 0
StepCandidates(initialStep) ==
  SelectSeq(Dedup(<<initialStep, initialStep \div 2>> \o FINE_STEPS, <<>>), IsPositive)

\* lines 751-772: step-size inference at the end of the sweep
Infer(m) ==
  LET numericValues == SortInts({k.v : k \in {t \in m.testedValues : t.num}}, <<>>) IN
  IF numericValues = <<>> THEN NextDef(m)
  ELSE LET initialStep == InitialStep(numericValues) IN
       [m EXCEPT !.initialStep = initialStep, !.stepCandidates = StepCandidates(initialStep),
                 !.stepIdx = 1, !.pc = "step"]

\* lines 774-776: the head of the loop over the step sizes
ForStep(m) ==
  IF m.stepIdx > Len(m.stepCandidates) THEN NextDef(m)
  ELSE [m EXCEPT !.improved = TRUE, !.guard = 0, !.pc = "while"]

\* lines 780-783: the centre of the probes
CurrentBest(bestProfileForm, key) ==
  LET fromOptions == parseFloatLoose(IF key \in Range(OPTION_KEYS)
                                       THEN bestProfileForm.options[key] ELSE Empty)
      fromSettings == parseFloatLoose(IF key \in Range(SETTING_KEYS)
                                        THEN bestProfileForm.settings[key] ELSE Empty)
  IN IF fromOptions.ok THEN fromOptions.n
     ELSE IF fromSettings.ok THEN fromSettings.n
     ELSE IF bestProfileForm.speculative THEN Unit ELSE 0

\* a climb loop that goes on for as long as it improves
WhileUncapped(m) ==
  IF m.improved
    THEN [m EXCEPT !.guard = @ + 1, !.improved = FALSE, !.dirIdx = 1, !.pc = "dir",
                   !.currentBest = CurrentBest(m.bestProfileForm, m.defs[m.defIdx].key)]
  ELSE [m EXCEPT !.stepIdx = @ + 1, !.pc = "step"]

\* lines 777-784: the head of the climb loop
While(m) ==
  IF m.improved /\ m.guard < GUARD_LIMIT
    THEN [m EXCEPT !.guard = @ + 1, !.improved = FALSE, !.dirIdx = 1, !.pc = "dir",
                   !.currentBest = CurrentBest(m.bestProfileForm, m.defs[m.defIdx].key)]
  ELSE [m EXCEPT !.stepIdx = @ + 1, !.pc = "step"]

DIRECTIONS == <<-1, 1>>

\* lines 785-799: the head of the loop over the two directions
ForDirection(m) ==
  IF m.dirIdx > Len(DIRECTIONS) THEN [m EXCEPT !.pc = "while"]
  ELSE LET direction == DIRECTIONS[m.dirIdx]
           fineStep == m.stepCandidates[m.stepIdx]
           candidateValue == m.currentBest + direction * fineStep
           decimals == IF fineStep < Unit THEN 3 ELSE 2
           formatted == toFixed(candidateValue, decimals)
           valueKey == normalizeValueKey(formatted)
           origin == IF fineStep = m.initialStep
                       THEN [kind |-> "voisin", direction |-> direction, step |-> 0]
                     ELSE [kind |-> "affinage", direction |-> direction,
                           step |-> NumberOf(toFixed(fineStep, 3))]
       IN IF candidateValue < 0 THEN [m EXCEPT !.dirIdx = @ + 1]
          ELSE IF valueKey \in m.testedValues THEN [m EXCEPT !.dirIdx = @ + 1]
          ELSE Probe(m, formatted, valueKey, origin, "refine")

\* one loop head of autoTuneSingle
Step(m) ==
  CASE m.pc = "def" -> ForDef(m)
    [] m.pc = "sweep" -> ForValue(m)
    [] m.pc = "infer" -> Infer(m)
    [] m.pc = "step" -> ForStep(m)
    [] m.pc = "while" -> While(m)
    [] m.pc = "dir" -> ForDirection(m)

\* autoTuneSingle runs to its next await, to a throw or to line 817
RECURSIVE Advance(_)
Advance(m) == IF m.pc \in {"baseline", "await", "threw", "return"} THEN m ELSE Advance(Step(m))

\* lines 343-357
extractParameter(profile, key) ==
  IF key = "speculative"
    THEN <<[key |-> key, value |-> IF profile.speculative THEN Word("true") ELSE Word("false")]>>
  ELSE IF key = "samples" THEN <<[key |-> key, value |-> profile.samples]>>
  ELSE IF key \in Range(OPTION_KEYS) THEN <<[key |-> key, value |-> profile.options[key]]>>
  ELSE IF key \in Range(SETTING_KEYS) THEN <<[key |-> key, value |-> profile.settings[key]]>>
  ELSE <<>>

RECURSIVE extractParameters(_, _)
extractParameters(profile, keys) ==
  IF keys = <<>> THEN <<>>
  ELSE extractParameter(profile, Head(keys)) \o extractParameters(profile, Tail(keys))

\* lines 821-824: the key of a candidate record in the ranking
CandidateKey(record) ==
  <<record.prompt, record.parameter, record.value, RoundMs(record.stats.averageLatency)>>

RECURSIVE UniqueByKey(_, _)
UniqueByKey(records, kept) ==
  IF records = <<>> THEN kept
  ELSE IF \E i \in DOMAIN kept : CandidateKey(kept[i]) = CandidateKey(Head(records))
    THEN UniqueByKey(Tail(records), kept)
  ELSE UniqueByKey(Tail(records), Append(kept, Head(records)))

\* lines 817-845: the value autoTuneSingle returns
FinishSingle(m) ==
  LET summary == [baseline |-> [profile |-> m.baselineResult, stats |-> m.baselineStats],
                  best |-> [profile |-> m.bestResult, stats |-> m.bestStats],
                  steps |-> m.steps]
  IN [prompt |-> m.targetPrompt,
      summary |-> summary,
      bestProfileForm |-> m.bestProfileForm,
      bestParameters |-> extractParameters(m.bestProfileForm, m.keysForReport),
      candidates |-> UniqueByKey(SortByLatency(m.candidateRecords), <<>>),
      steps |-> m.steps,
      response |-> [prompt |-> m.targetPrompt, profiles |-> <<m.baselineResult, m.bestResult>>]]

(***************************************************************************)
(* Multi-Prompt Aggregator: the end of runAutoTune                         *)
(***************************************************************************)
TOP_CANDIDATES == 10
HISTORY_LIMIT == 10

RECURSIVE FlatSteps(_)
FlatSteps(runResults) ==
  IF runResults = <<>> THEN <<>>
  ELSE LET entry == Head(runResults) IN
       [i \in DOMAIN entry.steps |->
          [entry.steps[i] EXCEPT !.parameter = @ \o <<entry.prompt>>]]
       \o FlatSteps(Tail(runResults))

\* the journals one after the other, left as they are
ConcatenatedSteps(runResults) == FlatSteps(runResults)

\* lines 874-881
CombinedSteps(runResults) == SortByImprovement(FlatSteps(runResults))

RECURSIVE FlatCandidates(_)
FlatCandidates(runResults) ==
  IF runResults = <<>> THEN <<>>
  ELSE Head(runResults).candidates \o FlatCandidates(Tail(runResults))

\* lines 883-885
CombinedCandidates(runResults) == SortByLatency(FlatCandidates(runResults))

\* a callback that keeps the run that comes last
PickLast(best, current) == current

\* the callback of the reduce of lines 887-889
PickBest(best, current) ==
  IF current.summary.best.stats.averageLatency < best.summary.best.stats.averageLatency
    THEN current ELSE best

RECURSIVE ReduceBest(_, _)
ReduceBest(runResults, best) ==
  IF runResults = <<>> THEN best
  ELSE ReduceBest(Tail(runResults), PickBest(best, Head(runResults)))

BestRun(runResults) == ReduceBest(Tail(runResults), Head(runResults))

Slice(seq, n) == SubSeq(seq, 1, Min(n, Len(seq)))

(***************************************************************************)
(* The page: its state, the inputs and the benchmark backend               *)
(***************************************************************************)
VARIABLES
  prompt,              \* useState: the primary prompt
  autoPromptsRaw,      \* useState: the additional prompts, as the lines of the text
  generatorMatrix,     \* useState: the variation text, as its lines of tokens
  generatorBase,       \* useState: the base profile of the generator and of the auto mode
  profiles,            \* useState: the profiles of the manual benchmark
  running, error, response,
  generatorError,
  autoRunning, autoError, autoSteps, autoSummary, autoCandidates,
  autoBestProfile, autoBestParameters, autoHistory, applyStatus,
  rt,                  \* the latest activation of runAutoTune (it runs while autoRunning)
  at,                  \* the latest activation of autoTuneSingle, kept when it has ended
  inflight,            \* the benchmark requests that are outstanding
  nextId,              \* the supply of createId for the auto mode
  deviations,          \* how many answers of the backend were not the nominal one
  launches,            \* how many runs of the auto mode were started
  manualActions,       \* how many times the manual submit or the generator was used
  calls,               \* how many benchmark requests the latest run of the auto mode issued
  configRequests,      \* the requests of api.updateConfig that are outstanding
  applyActions,        \* how many times an apply button was used
  call                 \* a function of the page applied on its own: its argument and result

pageVars == <<prompt, autoPromptsRaw, generatorMatrix, generatorBase, profiles, running, error,
              response, generatorError, autoRunning, autoError, autoSteps, autoSummary,
              autoCandidates, autoBestProfile, autoBestParameters, autoHistory, applyStatus>>
pageState == <<pageVars, rt, at, inflight, nextId, deviations, launches, manualActions, calls,
              configRequests, applyActions>>
vars == <<pageState, call>>

inputVars == <<prompt, autoPromptsRaw, generatorMatrix, generatorBase>>
applyVars == <<configRequests, applyActions>>
manualVars == <<running, error, generatorError, manualActions>>
publishedVars == <<profiles, response, autoSteps, autoSummary, autoCandidates, autoBestProfile,
                   autoBestParameters, autoHistory>>

\* Bounds of the model
MaxDeviations == 2
MaxLaunches == 1
MaxManualActions == 2

\* the latencies (ms) the backend reports: the nominal one without and with
\* speculative decoding, and that of an answer that is faster than nominal
Latencies == [plain |-> 220, speculative |-> 150, fast |-> 90]

\* what the backend gains by a layer on the GPU (ms), and the layers of the model
Offload == [gain |-> 4, layers |-> 12]

Null == <<>>
Some(x) == <<x>>

\* the variation texts the user may have typed
Line(key, values) ==
  <<Word(key), EQ>> \o
  [i \in 1..(2 * Len(values) - 1) |-> IF i % 2 = 1 THEN values[(i + 1) \div 2] ELSE COMMA]

TextEmpty == <<>>
TextTopK == <<Line("TOP_K", <<Dec(0, 0), Dec(0, 1)>>)>>
TextSpeculative == <<Line("speculative", <<Word("true")>>)>>
TextNoEquals == <<<<Word("temperature")>>>>
TextNoValues == <<<<Word("temperature"), EQ, COMMA>>>>
TextUnknownKey == <<Line("speculative", <<Word("true")>>), Line("foo", <<Dec(Unit, 0)>>)>>
TextNotBoolean == <<Line("speculative", <<Word("maybe")>>)>>
TextGrid25 ==
  <<Line("speculative", <<Word("true"), Word("true"), Word("true"), Word("true"), Word("true")>>),
    <<>>,
    Line("llm_model_path", <<Word("a"), Word("b"), Word("a"), Word("b"), Word("a")>>)>>
TextGrid24 ==
  <<Line("speculative", <<Word("true"), Word("true"), Word("true"), Word("true")>>),
    Line("llm_model_path", <<Word("a"), Word("b"), Word("a"), Word("b"), Word("a"), Word("b")>>)>>

\* the state of the form when the auto mode is launched
Inputs ==
  {[prompt |-> p, autoPromptsRaw |-> <<>>, generatorMatrix |-> x] :
     p \in {"", "p1"},
     x \in {TextEmpty, TextTopK, TextNoEquals, TextNoValues, TextUnknownKey, TextNotBoolean,
            TextGrid25}}
  \cup
  {[prompt |-> "p1", autoPromptsRaw |-> a, generatorMatrix |-> x] :
     a \in {<<"p2">>, <<"", "p1", "p2", "p2">>},
     x \in {TextEmpty, TextSpeculative}}

\* the state of the form in the runs where the manual benchmark and the profile
\* generator are used next to the auto mode
PageInputs ==
  {[prompt |-> "p1", autoPromptsRaw |-> <<>>, generatorMatrix |-> x] :
     x \in {TextSpeculative, TextNoEquals, TextGrid24, TextGrid25}}
  \cup {[prompt |-> "", autoPromptsRaw |-> <<>>, generatorMatrix |-> TextSpeculative]}

\* lines 424-444: the profiles the page is constructed with
StandardOptions ==
  [emptyOptions EXCEPT !["temperature"] = Dec(7000, 1), !["top_p"] = Dec(9000, 1),
                       !["max_tokens"] = Dec(512 * Unit, 0)]

IdleRun == [promptsToRun |-> <<>>, promptIdx |-> 0, runResults |-> <<>>,
            matrix |-> <<>>, base |-> NoProfile]
IdleSingle == [StartSingle("", <<>>, NoProfile, 0) EXCEPT !.pc = "idle", !.nextId = 0]

\* the page after construction, the form filled with one of the inputs
IdlePage(inputs) ==
  /\ \E input \in inputs :
       /\ prompt = input.prompt
       /\ autoPromptsRaw = input.autoPromptsRaw
       /\ generatorMatrix = input.generatorMatrix
  /\ profiles = <<createProfile(1, <<"Standard">>, <<"Parametres par defaut">>, StandardOptions)>>
  /\ generatorBase = createProfile(2, <<"Profil">>, <<"Base automatique">>, StandardOptions)
  /\ nextId = 3
  /\ running = FALSE /\ error = Null /\ response = Null
  /\ generatorError = Null
  /\ autoRunning = FALSE /\ autoError = Null
  /\ autoSteps = <<>> /\ autoSummary = Null /\ autoCandidates = <<>>
  /\ autoBestProfile = Null /\ autoBestParameters = <<>> /\ autoHistory = <<>>
  /\ applyStatus = Null
  /\ rt = IdleRun /\ at = IdleSingle
  /\ inflight = {}
  /\ deviations = 0 /\ launches = 0 /\ manualActions = 0 /\ calls = 0
  /\ configRequests = {} /\ applyActions = 0

InitWith(inputs) == IdlePage(inputs) /\ call = Null

Init == InitWith(Inputs)
InitPage == InitWith(PageInputs)

\* lines 449-456: the additional prompts
additionalPrompts == SelectSeq(autoPromptsRaw, LAMBDA line : line # "")

\* the answers of the backend to one descriptor: every requested sample ran
\* with the same latency, or none ran and an error is reported
FullResult(descriptor, ms) ==
  [name |-> descriptor.name, samples |-> descriptor.samples,
   runs |-> [i \in 1..descriptor.samples |-> Run(ms)], errors |-> <<>>]
ZeroRunResult(descriptor) ==
  [name |-> descriptor.name, samples |-> descriptor.samples,
   runs |-> <<>>, errors |-> <<"inference failed">>]
\* the layers the backend puts on the GPU: as many as the descriptor asks for,
\* up to those of the model
OffloadedLayers(descriptor) ==
  IF descriptor.settings.llm_n_gpu_layers.set
    THEN Max(0, Min(descriptor.settings.llm_n_gpu_layers.n \div Unit, Offload.layers))
  ELSE 0
NominalResult(descriptor) ==
  FullResult(descriptor, (IF descriptor.settings.llm_speculative_enabled
                            THEN Latencies.speculative ELSE Latencies.plain)
                         - Offload.gain * OffloadedLayers(descriptor))
BackendResults(descriptor) ==
  {NominalResult(descriptor), FullResult(descriptor, Latencies.fast), ZeroRunResult(descriptor)}

\* the request autoTuneSingle has outstanding when it stands at an await
AutoRequest(m) ==
  [owner |-> "auto", prompt |-> m.targetPrompt,
   profiles |-> <<profileFormToDescriptor(
                    IF m.pc = "baseline" THEN m.baseProfile ELSE m.pending.candidateProfile, 0)>>]

(***************************************************************************)
(* runAutoTune                                                             *)
(***************************************************************************)
\* a catch without the finally: the error is shown and the flag is left set
AbortKeepsRunning(m, run) ==
  /\ autoError' = Some(m.error)
  /\ UNCHANGED autoRunning
  /\ rt' = run /\ at' = m
  /\ UNCHANGED publishedVars

\* lines 904-908: catch and finally; m is autoTuneSingle where it threw
Abort(m, run) ==
  /\ autoError' = Some(m.error)
  /\ autoRunning' = FALSE
  /\ rt' = run /\ at' = m
  /\ UNCHANGED publishedVars

\* lines 891-903 and 906-908: the results are published and the run ends
PublishBest(bestRun, runResults, m, run) ==
  /\ response' = Some(bestRun.response)
  /\ profiles' = <<bestRun.bestProfileForm>>
  /\ autoBestProfile' = Some(bestRun.bestProfileForm)
  /\ autoBestParameters' = bestRun.bestParameters
  /\ autoSteps' = CombinedSteps(runResults)
  /\ autoCandidates' = Slice(CombinedCandidates(runResults), TOP_CANDIDATES)
  /\ autoSummary' = Some(bestRun.summary)
  /\ autoHistory' = Slice([i \in DOMAIN runResults |->
                             [prompt |-> runResults[i].prompt, summary |-> runResults[i].summary]]
                          \o autoHistory, HISTORY_LIMIT)
  /\ autoRunning' = FALSE
  /\ rt' = [run EXCEPT !.runResults = runResults] /\ at' = m
  /\ UNCHANGED autoError

\* lines 874-903; m is autoTuneSingle at its last return
Publish(runResults, m, run) == PublishBest(BestRun(runResults), runResults, m, run)

\* runAutoTune stands where autoTuneSingle (next) stands: at an await the
\* request is outstanding, a throw ends the run, a return publishes
Resume(next, run) ==
  /\ nextId' = next.nextId
  /\ IF next.pc \in {"baseline", "await"}
       THEN /\ at' = next
            /\ rt' = run
            /\ inflight' = (inflight \ {r \in inflight : r.owner = "auto"})
                           \cup {AutoRequest(next)}
            /\ calls' = calls + 1
            /\ UNCHANGED <<autoRunning, autoError, publishedVars>>
     ELSE /\ inflight' = inflight \ {r \in inflight : r.owner = "auto"}
          /\ UNCHANGED calls
          /\ Abort(next, run)

\* lines 869-872: autoTuneSingle has returned result from m; the next prompt starts
Returned(result, run, m) ==
  IF run.promptIdx < Len(run.promptsToRun)
    THEN Resume(StartSingle(run.promptsToRun[run.promptIdx + 1], run.matrix, run.base, m.nextId),
                [run EXCEPT !.runResults = Append(@, result), !.promptIdx = @ + 1])
  ELSE /\ nextId' = m.nextId
       /\ inflight' = inflight \ {r \in inflight : r.owner = "auto"}
       /\ UNCHANGED calls
       /\ Publish(Append(run.runResults, result), m, run)

\* runAutoTune goes on from the place m that autoTuneSingle has reached
Settle(m, run) ==
  IF m.pc = "return" THEN Returned(FinishSingle(m), run, m) ELSE Resume(m, run)

\* lines 859-872: the run starts with its first prompt, up to the first await
Launch(m, run) ==
  /\ launches' = launches + 1
  /\ applyStatus' = Null
  /\ nextId' = m.nextId
  /\ IF m.pc = "threw"
       THEN /\ autoError' = Some(m.error)
            /\ autoRunning' = FALSE
            /\ rt' = run /\ at' = m
            /\ UNCHANGED inflight
            /\ calls' = 0
     ELSE /\ autoError' = Null
          /\ autoRunning' = TRUE
          /\ rt' = run /\ at' = m
          /\ inflight' = inflight \cup {AutoRequest(m)}
          /\ calls' = 1
  /\ autoSteps' = <<>> /\ autoCandidates' = <<>> /\ autoSummary' = Null
  /\ autoBestParameters' = <<>>
  /\ UNCHANGED <<profiles, response, autoBestProfile, autoHistory>>

\* line 854
PromptsToRun(basePrompt) ==
  <<basePrompt>> \o SelectSeq(additionalPrompts, LAMBDA entry : entry # basePrompt)

\* lines 847-872: the click on the auto mode button, up to the first await
RunAutoTune ==
  /\ ~autoRunning
  /\ launches < MaxLaunches
  /\ UNCHANGED <<inputVars, applyVars, call, manualVars, deviations>>
  /\ IF prompt = ""
       THEN /\ autoError' = Some("Saisissez un prompt avant de lancer le mode auto.")
            /\ UNCHANGED <<publishedVars, applyStatus, autoRunning, rt, at, inflight, nextId,
                           launches, calls>>
     ELSE Launch(StartSingle(prompt, generatorMatrix, generatorBase, nextId),
                 [promptsToRun |-> PromptsToRun(prompt), promptIdx |-> 1, runResults |-> <<>>,
                  matrix |-> generatorMatrix, base |-> generatorBase])

\* the backend answers a request for descriptor with result; an answer other
\* than the nominal one uses up one deviation
Answers(descriptor) ==
  {result \in BackendResults(descriptor) :
     result = NominalResult(descriptor) \/ deviations < MaxDeviations}

Deviate(result, descriptor) ==
  deviations' = IF result = NominalResult(descriptor) THEN deviations ELSE deviations + 1

\* lines 665-682 and on: autoTuneSingle after the baseline answer
BaselineAnswered(descriptor) ==
  \E result \in Answers(descriptor) :
    /\ Deviate(result, descriptor)
    /\ Settle(Advance(AfterBaseline(at, result)), rt)

\* lines 737-749 or 800-812, after evaluateCandidate
AfterEval(m) == IF m.pending.from = "sweep" THEN AfterSweepEval(m) ELSE AfterRefineEval(m)

\* lines 696-718 and on: autoTuneSingle after the answer to evaluateCandidate
CandidateAnswered(descriptor) ==
  \E result \in Answers(descriptor) :
    /\ Deviate(result, descriptor)
    /\ Settle(Advance(AfterEval(AfterEvaluate(at, result))), rt)

\* the baseline request of line 660 is answered
BaselineResolved ==
  /\ at.pc = "baseline"
  /\ BaselineAnswered(AutoRequest(at).profiles[1])
  /\ UNCHANGED <<inputVars, applyVars, call, manualVars, applyStatus, launches>>

\* the request of evaluateCandidate (line 691) is answered
CandidateResolved ==
  /\ at.pc = "await"
  /\ CandidateAnswered(AutoRequest(at).profiles[1])
  /\ UNCHANGED <<inputVars, applyVars, call, manualVars, applyStatus, launches>>

\* the detail of the error that req throws when the backend rejects a request
REJECTION_DETAIL == "detail"

\* the outstanding request of the auto mode is rejected: the await throws
AutoRequestRejected ==
  /\ at.pc \in {"baseline", "await"}
  /\ deviations < MaxDeviations
  /\ deviations' = deviations + 1
  /\ inflight' = inflight \ {r \in inflight : r.owner = "auto"}
  /\ Abort(Thrown(at, REJECTION_DETAIL), rt)
  /\ UNCHANGED <<inputVars, applyVars, call, manualVars, applyStatus, launches, nextId, calls>>

(***************************************************************************)
(* The manual benchmark (handleSubmit) and the profile generator           *)
(***************************************************************************)
autoVars == <<autoRunning, autoError, autoSteps, autoSummary, autoCandidates, autoBestProfile,
              autoBestParameters, autoHistory, applyStatus, rt, at, launches, calls>>

\* line 468
canSubmit == prompt # "" /\ profiles # <<>>

\* lines 519-529: the request of the manual benchmark, or null
buildPayload ==
  IF prompt = "" \/ profiles = <<>> THEN Null
  ELSE Some([owner |-> "manual", prompt |-> prompt,
             profiles |-> [i \in DOMAIN profiles |-> profileFormToDescriptor(profiles[i], i - 1)]])

\* lines 531-541: the submit button (line 1319: disabled={!canSubmit || running})
\* is clicked; handleSubmit runs up to its await
HandleSubmit ==
  /\ canSubmit /\ ~running
  /\ manualActions < MaxManualActions
  /\ manualActions' = manualActions + 1
  /\ IF buildPayload = Null
       THEN /\ error' = Some("Prompt ou profils manquants.")
            /\ UNCHANGED <<running, inflight>>
     ELSE /\ running' = TRUE
          /\ error' = Null
          /\ inflight' = inflight \cup {buildPayload[1]}
  /\ UNCHANGED <<inputVars, applyVars, call, profiles, response, generatorError, autoVars, nextId, deviations>>

\* lines 541-542 and 545-547: the request of the manual benchmark is answered
ManualResolved ==
  \E request \in {r \in inflight : r.owner = "manual"} :
    /\ response' = Some([prompt |-> request.prompt,
                         profiles |-> [i \in DOMAIN request.profiles |->
                                         NominalResult(request.profiles[i])]])
    /\ running' = FALSE
    /\ inflight' = inflight \ {request}
    /\ UNCHANGED <<inputVars, applyVars, call, profiles, error, generatorError, manualActions, autoVars, nextId,
                   deviations>>

\* lines 543-547: the request of the manual benchmark is rejected
ManualRejected ==
  \E request \in {r \in inflight : r.owner = "manual"} :
    /\ deviations < MaxDeviations
    /\ deviations' = deviations + 1
    /\ error' = Some(REJECTION_DETAIL)
    /\ running' = FALSE
    /\ inflight' = inflight \ {request}
    /\ UNCHANGED <<inputVars, applyVars, call, profiles, response, generatorError, manualActions, autoVars, nextId>>

\* createId in the profile generator: the identifiers of the profiles that the
\* click-th use of the page's manual controls generates are fresh, and apart
\* from those of the auto mode (nextId)
GeneratedId(click, index) == -(100 * click + index)

\* line 630: combos.map((combo, index) => applyOverrides(...)): the profiles,
\* or the error thrown
RECURSIVE GenerateFrom(_, _, _, _, _)
GenerateFrom(base, combos, index, click, generated) ==
  IF index > Len(combos) THEN [ok |-> TRUE, error |-> "", profiles |-> generated]
  ELSE LET one == applyOverrides(base, combos[index], ToString(index),
                                 GeneratedId(click, index)) IN
       IF ~one.ok THEN [ok |-> FALSE, error |-> one.error, profiles |-> <<>>]
       ELSE GenerateFrom(base, combos, index + 1, click, Append(generated, one.profile))

\* lines 634-636: the catch of handleGenerateProfiles
GeneratorFails(message) ==
  /\ generatorError' = Some(message)
  /\ UNCHANGED <<profiles, response, error>>

\* lines 630-633
GeneratorSets(outcome) ==
  IF ~outcome.ok THEN GeneratorFails(outcome.error)
  ELSE /\ generatorError' = Null
       /\ profiles' = outcome.profiles
       /\ response' = Null
       /\ error' = Null

\* lines 625-633
GenerateCombos(combos) ==
  IF Len(combos) > MAX_AUTO_PROFILES THEN GeneratorFails("Trop de combinaisons")
  ELSE GeneratorSets(GenerateFrom(generatorBase, combos, 1, manualActions + 1, <<>>))

\* lines 619-633
GenerateParsed(parsed) ==
  IF ~parsed.ok THEN GeneratorFails(parsed.error)
  ELSE IF parsed.defs = <<>> THEN GeneratorFails("Ajoutez au moins un parametre a varier.")
  ELSE GenerateCombos(cartesianProduct(parsed.defs))

\* lines 617-637: the button of the profile generator is clicked
HandleGenerateProfiles ==
  /\ manualActions < MaxManualActions
  /\ manualActions' = manualActions + 1
  /\ GenerateParsed(parseVariationInput(generatorMatrix))
  /\ UNCHANGED <<inputVars, applyVars, call, running, autoVars, inflight, nextId, deviations>>

(***************************************************************************)
(* The apply action (handleApplyProfileToConfig)                           *)
(***************************************************************************)
\* Bound of the model
MaxApplyActions == 2

\* line 1470: the rows of the ranking that have an apply button
VISIBLE_CANDIDATES == 8

\* lines 1443, 1480 and 1489: the profiles the apply buttons pass, while the
\* ranking is shown: the global best profile (which may be null) and the
\* profiles of the visible rows
ApplyTargets ==
  IF autoCandidates = <<>> THEN {}
  ELSE {autoBestProfile}
       \cup {Some(autoCandidates[i].profileForm) :
               i \in 1..Min(VISIBLE_CANDIDATES, Len(autoCandidates))}

\* a patch made of every setting of the descriptor, written or not
AllSettings(descriptor) ==
  <<[key |-> "llm_speculative_enabled", value |-> descriptor.settings.llm_speculative_enabled]>>
  \o [i \in DOMAIN SETTING_KEYS |->
        [key |-> SETTING_KEYS[i], value |-> descriptor.settings[SETTING_KEYS[i]]]]

\* a patch that keeps the entries of descriptor.settings that are truthy: a
\* flag that is false is dropped with the settings that are not written
TruthySettings(descriptor) ==
  SelectSeq(<<[key |-> "llm_speculative_enabled",
               value |-> descriptor.settings.llm_speculative_enabled]>>,
            LAMBDA entry : entry.value)
  \o SelectSeq([i \in DOMAIN SETTING_KEYS |->
                 [key |-> SETTING_KEYS[i], value |-> descriptor.settings[SETTING_KEYS[i]]]],
               LAMBDA entry : entry.value.set /\ entry.value # PresentText(Empty))

\* lines 598-603: the entries of descriptor.settings, in the order they were
\* written, that are not undefined, null or ''
ConfigPatch(descriptor) ==
  <<[key |-> "llm_speculative_enabled", value |-> descriptor.settings.llm_speculative_enabled]>>
  \o SelectSeq([i \in DOMAIN SETTING_KEYS |->
                 [key |-> SETTING_KEYS[i], value |-> descriptor.settings[SETTING_KEYS[i]]]],
               LAMBDA entry : entry.value.set /\ entry.value # PresentText(Empty))

\* an end of the apply action that also clears the summary of the run
ApplyEndsAndClears(status) ==
  /\ applyStatus' = Some(status)
  /\ autoSummary' = Null
  /\ UNCHANGED <<inputVars, profiles, running, error, response, generatorError, autoRunning,
                 autoError, autoSteps, autoCandidates, autoBestProfile,
                 autoBestParameters, autoHistory, rt, at, inflight, nextId, deviations,
                 launches, manualActions, calls, call>>

\* the apply action ends here: only the status line is written
ApplyEnds(status) ==
  /\ applyStatus' = Some(status)
  /\ UNCHANGED <<inputVars, profiles, running, error, response, generatorError, autoRunning,
                 autoError, autoSteps, autoSummary, autoCandidates, autoBestProfile,
                 autoBestParameters, autoHistory, rt, at, inflight, nextId, deviations,
                 launches, manualActions, calls, call>>

\* lines 595-610: an apply button is pressed; the handler runs to its await
HandleApplyProfileToConfig ==
  /\ applyActions < MaxApplyActions
  /\ \E chosen \in ApplyTargets :
       IF chosen = Null
         THEN UNCHANGED <<pageState, call>>
       ELSE LET descriptor == profileFormToDescriptor(chosen[1], 0)
                patch == ConfigPatch(descriptor)
            IN /\ applyActions' = applyActions + 1
               /\ IF patch = <<>>
                    THEN /\ ApplyEnds("Aucun parametre a appliquer.")
                         /\ UNCHANGED configRequests
                  ELSE /\ ApplyEnds("Mise a jour en cours...")
                       /\ configRequests' = configRequests \cup
                            {[id |-> applyActions + 1, profile |-> chosen[1], patch |-> patch]}

\* lines 610-611: api.updateConfig is answered
ConfigUpdated ==
  \E request \in configRequests :
    /\ configRequests' = configRequests \ {request}
    /\ ApplyEnds("Configuration mise a jour avec succes.")
    /\ UNCHANGED applyActions

\* lines 612-614: api.updateConfig is rejected, with a detail or without one
ConfigRejected ==
  \E request \in configRequests, detail \in {Null, Some(REJECTION_DETAIL)} :
    /\ configRequests' = configRequests \ {request}
    /\ ApplyEnds(IF detail # Null THEN detail[1]
                 ELSE "Echec de la mise a jour de la configuration.")
    /\ UNCHANGED applyActions

Next ==
  \/ RunAutoTune
  \/ BaselineResolved
  \/ CandidateResolved
  \/ AutoRequestRejected

\* the auto mode alone
Spec == Init /\ [][Next]_vars

NextPage ==
  \/ Next
  \/ HandleSubmit
  \/ ManualResolved
  \/ ManualRejected
  \/ HandleGenerateProfiles

\* the auto mode, the manual benchmark and the profile generator side by side
SpecPage == InitPage /\ [][NextPage]_vars

\* the state of the form in the runs that refine a numeric axis: one that the
\* backend rewards step after step, one whose declared values are less than 1
\* apart, the sample count, and the speculative toggle written as 0 and 1
TextGpuLayers == <<Line("llm_n_gpu_layers", <<Dec(0, 0)>>)>>
TextTemperature == <<Line("temperature", <<Dec(6000, 1), Dec(9000, 1)>>)>>
TextSamples == <<Line("samples", <<Dec(2 * Unit, 0)>>)>>
TextSpeculativeDigits == <<Line("speculative", <<Dec(0, 0), Dec(Unit, 0)>>)>>
ClimbInputs == {[prompt |-> "p1", autoPromptsRaw |-> <<>>, generatorMatrix |-> TextGpuLayers]}
CascadeInputs ==
  {[prompt |-> "p1", autoPromptsRaw |-> <<>>, generatorMatrix |-> x] :
     x \in {TextTemperature, TextSamples, TextSpeculativeDigits}}

\* the first run of the auto mode on the page, for the input that climbs and for
\* the other inputs that refine: the run of one prompt is followed from the
\* click to its end
InitClimb == InitWith(ClimbInputs)

FirstRunAutoTune == launches = 0 /\ RunAutoTune

NextClimb ==
  \/ FirstRunAutoTune
  \/ BaselineResolved
  \/ CandidateResolved
  \/ AutoRequestRejected

SpecClimb == InitClimb /\ [][NextClimb]_vars

InitCascade == InitWith(CascadeInputs)
SpecCascade == InitCascade /\ [][NextClimb]_vars

\* the state of the form in the runs where the apply buttons are used: the
\* ranking has profiles with and without settings
TextSettings ==
  <<Line("llm_model_path", <<Word("a")>>), Line("llm_context_tokens", <<Word("abc")>>)>>
ApplyInputs ==
  {[prompt |-> "p1", autoPromptsRaw |-> <<>>, generatorMatrix |-> x] :
     x \in {TextEmpty, TextSpeculative, TextSettings, TextTopK}}

\* autoTuneSingle from the place m to its end, every request answered nominally
RECURSIVE NominalRun(_)
NominalRun(m) ==
  IF m.pc = "baseline"
    THEN NominalRun(Advance(AfterBaseline(m, NominalResult(AutoRequest(m).profiles[1]))))
  ELSE IF m.pc = "await"
    THEN NominalRun(Advance(AfterEval(AfterEvaluate(m, NominalResult(AutoRequest(m).profiles[1])))))
  ELSE m

\* lines 874-903: the page when the run of one prompt that ended in m with
\* runResults has been published
PublishedPage(input, m, runResults, bestRun) ==
  /\ prompt = input.prompt
  /\ autoPromptsRaw = input.autoPromptsRaw
  /\ generatorMatrix = input.generatorMatrix
  /\ generatorBase = createProfile(2, <<"Profil">>, <<"Base automatique">>, StandardOptions)
  /\ running = FALSE /\ error = Null /\ generatorError = Null
  /\ response = Some(bestRun.response)
  /\ profiles = <<bestRun.bestProfileForm>>
  /\ autoBestProfile = Some(bestRun.bestProfileForm)
  /\ autoBestParameters = bestRun.bestParameters
  /\ autoSteps = CombinedSteps(runResults)
  /\ autoCandidates = Slice(CombinedCandidates(runResults), TOP_CANDIDATES)
  /\ autoSummary = Some(bestRun.summary)
  /\ autoHistory = [i \in DOMAIN runResults |->
                      [prompt |-> runResults[i].prompt, summary |-> runResults[i].summary]]
  /\ autoRunning = FALSE /\ autoError = Null
  /\ applyStatus = Null
  /\ rt = [promptsToRun |-> <<input.prompt>>, promptIdx |-> 1, runResults |-> runResults,
           matrix |-> input.generatorMatrix, base |-> generatorBase]
  /\ at = m
  /\ inflight = {}
  /\ nextId = m.nextId
  /\ deviations = 0 /\ launches = 1 /\ manualActions = 0
  /\ calls = Len(m.requests) + 1
  /\ configRequests = {} /\ applyActions = 0
  /\ call = Null

PublishedRun(input, m) ==
  PublishedPage(input, m, <<FinishSingle(m)>>, BestRun(<<FinishSingle(m)>>))

\* the apply buttons exist once a ranking is shown: the page has published the
\* run of the auto mode for one of the inputs
InitApply ==
  \E input \in ApplyInputs :
    PublishedRun(input, NominalRun(StartSingle(input.prompt, input.generatorMatrix,
      createProfile(2, <<"Profil">>, <<"Base automatique">>, StandardOptions), 3)))

NextApply ==
  \/ HandleApplyProfileToConfig
  \/ ConfigUpdated
  \/ ConfigRejected

SpecApply == InitApply /\ [][NextApply]_vars

(***************************************************************************)
(* The functions of the page applied on their own                          *)
(***************************************************************************)
\* Bounds of the arguments
MaxAxes == 2
MaxValues == 2

SeqsUpTo(S, n) == UNION {[1..k -> S] : k \in 0..n}

\* variation texts: up to MaxAxes lines, each a key, '=' and up to MaxValues values
AxisKeys == {"temperature", "TOP_K"}
AxisValues == {Dec(Unit \div 2, 1), Dec(Unit, 0)}
AxisLines == {Line(k, values) : k \in AxisKeys, values \in SeqsUpTo(AxisValues, MaxValues)}
VariationTexts(lines) == SeqsUpTo(lines, MaxAxes)

CallOf(fn, arg) == [fn |-> fn, arg |-> arg, done |-> FALSE, out |-> Null]
Pending(fn) == call # Null /\ call[1].fn = fn /\ ~call[1].done
Done(fn) == call # Null /\ call[1].fn = fn /\ call[1].done
Returns(out) ==
  /\ call' = Some([call[1] EXCEPT !.done = TRUE, !.out = Some(out)])
  /\ UNCHANGED pageState

\* lines 620-625: the text is compiled and expanded
CallCartesianProduct ==
  /\ Pending("cartesianProduct")
  /\ LET parsed == parseVariationInput(call[1].arg) IN
     Returns([ok |-> parsed.ok, error |-> parsed.error, defs |-> parsed.defs,
              combos |-> IF parsed.ok THEN cartesianProduct(parsed.defs) ELSE <<>>])

\* The objects of a call, by address: a ProfileForm holds the addresses of its
\* options object and of its settings object
Parts(heap, a) == {a, heap[a].options, heap[a].settings}
Load(heap, a) ==
  [heap[a] EXCEPT !.options = heap[heap[a].options], !.settings = heap[heap[a].settings]]
\* a new ProfileForm with a new options object and a new settings object; its
\* address is the last one of the heap
Allocate(heap, profile) ==
  heap \o <<profile.options, profile.settings,
            [profile EXCEPT !.options = Len(heap) + 1, !.settings = Len(heap) + 2]>>

\* a copy that keeps the options and settings objects of the original
cloneProfileShallow(heap, a, id) == Append(heap, [heap[a] EXCEPT !.id = id])

\* lines 236-244: the object literal and its two spreads
cloneProfileIn(heap, a, id) == Allocate(heap, cloneProfile(Load(heap, a), id))

\* lines 251-272 on the objects: next.speculative and next.samples are written
\* in place, next.options and next.settings are replaced by a new object
applyEntryIn(heap, next, entry) ==
  LET one == applyEntry(Load(heap, next), entry)
      key == normalizeKey(entry.key)
      written == [heap EXCEPT ![next].speculative = one.profile.speculative,
                              ![next].samples = one.profile.samples]
  IN IF ~one.ok \/ Trim(entry.value) = Empty THEN [ok |-> one.ok, error |-> one.error, heap |-> heap]
     ELSE IF key \in Range(OPTION_KEYS) THEN
       [ok |-> TRUE, error |-> "",
        heap |-> Append([heap EXCEPT ![next].options = Len(heap) + 1], one.profile.options)]
     ELSE IF key \in Range(SETTING_KEYS) THEN
       [ok |-> TRUE, error |-> "",
        heap |-> Append([heap EXCEPT ![next].settings = Len(heap) + 1], one.profile.settings)]
     ELSE [ok |-> TRUE, error |-> "", heap |-> written]

RECURSIVE applyEntriesIn(_, _, _)
applyEntriesIn(heap, next, entries) ==
  IF entries = <<>> THEN [ok |-> TRUE, error |-> "", heap |-> heap]
  ELSE LET one == applyEntryIn(heap, next, Head(entries)) IN
       IF ~one.ok THEN one ELSE applyEntriesIn(one.heap, next, Tail(entries))

\* lines 246-274 on the objects: the heap after the call and, when nothing was
\* thrown, the address of the returned profile
applyOverridesIn(heap, a, overrides, nameSuffix, id) ==
  LET cloned == cloneProfileIn(heap, a, id)
      next == Len(cloned)
      named == IF nameSuffix # ""
                 THEN [cloned EXCEPT ![next].name =
                         (IF heap[a].name = <<>> THEN <<"Profil">> ELSE heap[a].name)
                         \o <<nameSuffix>>]
               ELSE cloned
      applied == applyEntriesIn(named, next, overrides)
  IN [ok |-> applied.ok, error |-> applied.error, heap |-> applied.heap,
      result |-> IF applied.ok THEN Some(next) ELSE Null]

\* Bound of the override mappings
MaxOverrides == 2

\* override mappings: up to MaxOverrides entries with different keys
OverrideKeys == {"temperature", "llm_model_path", "speculative", "samples", "TOP_K", "foo"}
OverrideValues == {Empty, Word("true"), Word("maybe"), Dec(2 * Unit, 0), Dec(Unit \div 2, 1)}
OverrideEntries == [key : OverrideKeys, value : OverrideValues]
Overrides(entries) ==
  {o \in SeqsUpTo(entries, MaxOverrides) :
     \A i, j \in DOMAIN o : i # j => o[i].key # o[j].key}

\* the profiles the functions are applied to: the base of the page, and one
\* without a name that has speculative decoding and two settings
CallProfiles ==
  {createProfile(2, <<"Profil">>, <<"Base automatique">>, StandardOptions),
   [createProfile(1, <<>>, <<>>, emptyOptions) EXCEPT
      !.speculative = TRUE, !.samples = Dec(3 * Unit, 0),
      !.settings["llm_model_path"] = Word("a"),
      !.settings["llm_context_tokens"] = Dec(2048 * Unit, 0)]}

\* the heap of a call: the argument profile alone, at the last address
ArgumentHeap(profile) == Allocate(<<>>, profile)

\* lines 630, 735 and 792: applyOverrides is applied to a profile and a mapping; the
\* identifier of the copy is the one createId hands out
CallApplyOverrides ==
  /\ Pending("applyOverrides")
  /\ LET arg == call[1].arg
         heap == ArgumentHeap(arg.profile)
         onObjects == applyOverridesIn(heap, Len(heap), arg.overrides, arg.nameSuffix, nextId)
         onValues == applyOverrides(arg.profile, arg.overrides, arg.nameSuffix, nextId)
     IN Returns([ok |-> onValues.ok, error |-> onValues.error, profile |-> onValues.profile,
                 before |-> heap, argument |-> Len(heap), heap |-> onObjects.heap, result |-> onObjects.result,
                 thrown |-> ~onObjects.ok])

\* the texts a numeric field of the form may hold: nothing, a word, and numbers
\* with and without a fraction, zero and a negative one included
FieldTexts == {Empty, Word("abc"), Dec(0, 0), Dec(Unit + Unit \div 2, 1), Dec(-Unit, 0),
              Dec(2048 * Unit, 0)}
NUMERIC_SETTINGS == {"llm_context_tokens", "llm_n_gpu_layers", "llm_speculative_context_tokens",
                     "llm_speculative_n_gpu_layers"}
INTEGER_KEYS == {"top_k", "max_tokens"} \cup NUMERIC_SETTINGS

\* forms that differ from a profile in one sampling option and one numeric setting
FormProfiles(bases) ==
  {[p EXCEPT !.options[o] = x, !.settings[s] = y] :
     p \in bases, o \in Range(OPTION_KEYS), x \in FieldTexts,
     s \in NUMERIC_SETTINGS, y \in FieldTexts}

\* lines 522, 597, 659 and 690: the descriptor of a form
CallProfileFormToDescriptor ==
  /\ Pending("profileFormToDescriptor")
  /\ Returns(profileFormToDescriptor(call[1].arg, 0))

CallInputs(bases) ==
  {CallOf("cartesianProduct", text) : text \in VariationTexts(AxisLines)}
  \cup {CallOf("profileFormToDescriptor", p) : p \in FormProfiles(bases)}
  \cup
  {CallOf("applyOverrides", [profile |-> p, overrides |-> o, nameSuffix |-> s]) :
     p \in bases, o \in Overrides(OverrideEntries), s \in {"", "#1"}}

InitCalls ==
  /\ IdlePage({[prompt |-> "p1", autoPromptsRaw |-> <<>>, generatorMatrix |-> TextEmpty]})
  /\ \E c \in CallInputs(CallProfiles) : call = Some(c)

NextCalls ==
  \/ CallCartesianProduct
  \/ CallApplyOverrides
  \/ CallProfileFormToDescriptor

SpecCalls == InitCalls /\ [][NextCalls]_vars

(***************************************************************************)
(* Properties                                                              *)
(***************************************************************************)
LastOf(seq) == seq[Len(seq)]

\* two value texts have the same normalized key: the same number, or, when
\* one of them is no number, the same text
SameValue(a, b) ==
  IF NumberIsFinite(a) /\ NumberIsFinite(b) THEN NumberOf(a) = NumberOf(b) ELSE a = b

\* the success of an evaluation as the specification defines it
Successful(profile, stats) == Len(profile.runs) > 0 /\ stats.averageLatency > 0

\* a step of the page in which autoTuneSingle has received the answer to the
\* request of a candidate and has recorded it (at' is the same activation)
Evaluated == at.pc = "await" /\ Len(at'.steps) = Len(at.steps) + 1

\* the errors of the input of a run of the auto mode
INPUT_ERRORS ==
  {"Ligne invalide", "Aucune valeur specifiee", "Champ inconnu", "Valeur booleenne invalide"}

\* the cartesian expansion of the variation text is over the ceiling
OverCeiling(matrix) ==
  LET parsed == parseVariationInput(matrix) IN
  parsed.ok /\ Len(cartesianProduct(parsed.defs)) > MAX_AUTO_PROFILES

\* C1 (as claimed): while the auto mode runs, at most one benchmark request is
\* outstanding, and it is the one of the auto mode
C1_OneOutstandingRequest ==
  autoRunning => (Cardinality(inflight) <= 1 /\ \A r \in inflight : r.owner = "auto")

\* C2 (as claimed): when the request of a candidate is rejected the run goes
\* on: the candidate is recorded as a step with success = false, the best is
\* left as it is and the auto mode is still running
C2_RejectionNeverAborts ==
  [][(AutoRequestRejected /\ at.pc = "await") =>
       /\ autoRunning'
       /\ Len(at'.steps) = Len(at.steps) + 1
       /\ ~LastOf(at'.steps).success
       /\ at'.bestStats = at.bestStats]_vars

\* the later values of the axis under sweep whose key no request of the axis had
UntriedValues(m) ==
  {i \in (m.valueIdx + 1)..Len(m.defs[m.defIdx].values) :
     \A k \in DOMAIN m.requests :
       m.requests[k].def = m.defIdx =>
         ~SameValue(m.requests[k].value, m.defs[m.defIdx].values[i])}

\* C3: when the answer to a candidate's request has zero runs, exactly one
\* step with success = false and the answer's errors is appended, the best
\* profile, statistics and result and the candidate records are unchanged,
\* the run is not ended by it, and the sweep goes on with the next value of
\* the axis that is not yet tried
C3_ZeroRunAnswerIsRecordedAndSkipped ==
  [][(Evaluated /\ at'.last.candidate.runs = <<>>) =>
       /\ SubSeq(at'.steps, 1, Len(at.steps)) = at.steps
       /\ ~LastOf(at'.steps).success
       /\ LastOf(at'.steps).errors = at'.last.candidate.errors
       /\ LastOf(at'.steps).parameter = <<at.pending.parameterLabel>>
       /\ at'.bestProfileForm = at.bestProfileForm
       /\ at'.bestStats = at.bestStats
       /\ at'.bestResult = at.bestResult
       /\ at'.candidateRecords = at.candidateRecords
       /\ at'.pc = "threw" => at'.error \in INPUT_ERRORS
       /\ (at.pending.from = "sweep" /\ UntriedValues(at) # {}) =>
            /\ at'.pc = "await"
            /\ at'.defIdx = at.defIdx
            /\ at'.pending.valueLabel =
                 at.defs[at.defIdx].values[CHOOSE i \in UntriedValues(at) :
                                              \A j \in UntriedValues(at) : i <= j]]_vars

\* C3, reached: a zero-run answer with an error was recorded as a failed step
\* and the sweep stands at the next value of the same axis
C3_Witness ==
  /\ at.pc = "await" /\ at.pending.from = "sweep"
  /\ at.last.candidate.runs = <<>> /\ at.last.candidate.errors # <<>>
  /\ at.steps # <<>> /\ ~LastOf(at.steps).success
  /\ Len(at.requests) >= 2
  /\ at.requests[Len(at.requests) - 1].def = at.defIdx

\* C4 (as claimed): a run of the auto mode that has ended with an input error
\* has issued no benchmark request
C4_InputErrorBeforeAnyRequest ==
  (~autoRunning /\ at.pc = "threw" /\ at.error \in INPUT_ERRORS) => calls = 0

\* C5 (as claimed): for a text over the ceiling the auto mode issues no
\* request and the profile generator reports the excess and generates
\* nothing; a text under the ceiling is not refused for its size
C5_CeilingInGeneratorAndAutoMode ==
  [][/\ OverCeiling(generatorMatrix) => calls' = 0
     /\ HandleGenerateProfiles =>
          IF OverCeiling(generatorMatrix)
            THEN generatorError' = Some("Trop de combinaisons")
                 /\ UNCHANGED <<profiles, inflight>>
          ELSE generatorError' # Some("Trop de combinaisons")]_vars

\* C6: in the run of one prompt no two requests of one axis have values with
\* the same normalized key, in the sweep and the refinement together
C6_NoKeyEvaluatedTwice ==
  \A i, j \in DOMAIN at.requests :
    (i < j /\ at.requests[i].def = at.requests[j].def) =>
      ~SameValue(at.requests[i].value, at.requests[j].value)

\* C6, reached: an axis that declares two values of one key (0 and 0.0) has
\* been swept and refined with one request for that key, and the refinement
\* has come back to a probe of that key
C6_Witness ==
  /\ at.pc = "return"
  /\ \E d \in DOMAIN at.defs : \E i, j \in DOMAIN at.defs[d].values :
       /\ i < j
       /\ at.defs[d].values[i] # at.defs[d].values[j]
       /\ SameValue(at.defs[d].values[i], at.defs[d].values[j])
       /\ Cardinality({k \in DOMAIN at.requests :
                         /\ at.requests[k].def = d
                         /\ SameValue(at.requests[k].value, at.defs[d].values[i])}) = 1
       /\ \E k \in DOMAIN at.requests :
            at.requests[k].def = d /\ NumberOf(at.requests[k].value) > NumberOf(at.defs[d].values[i])
       /\ NumberOf(at.bestProfileForm.options[at.defs[d].key]) > NumberOf(at.defs[d].values[i])

\* C7: each evaluation leaves the best mean latency as it is or lowers it; it
\* is lowered only to the mean of a successful candidate that is strictly
\* below it, and it is never above the mean of the baseline
C7_BestLatencyNeverIncreases ==
  [][Evaluated =>
       /\ at'.bestStats.averageLatency <= at.bestStats.averageLatency
       /\ at'.bestStats.averageLatency <= at'.baselineStats.averageLatency
       /\ at'.baselineStats = at.baselineStats
       /\ at'.bestStats.averageLatency # at.bestStats.averageLatency =>
            /\ LastOf(at'.steps).success
            /\ LastOf(at'.steps).stats.averageLatency < at.bestStats.averageLatency
            /\ at'.bestStats = LastOf(at'.steps).stats]_vars

\* C7, reached: the best was lowered below the baseline and a later successful
\* candidate with a higher mean was evaluated and not adopted
C7_Witness ==
  /\ at.pc \in {"await", "return"}
  /\ at.bestStats.averageLatency < at.baselineStats.averageLatency
  /\ at.last.success
  /\ at.last.stats.averageLatency > at.bestStats.averageLatency

\* C8 (as claimed): every candidate record, the one of the baseline included,
\* comes from a successful evaluation, in the ranking that the run of each
\* prompt returns and in the published ranking
C8_RecordsAreSuccessful ==
  /\ \A i \in DOMAIN rt.runResults : \A k \in DOMAIN rt.runResults[i].candidates :
       Successful(rt.runResults[i].candidates[k].profile, rt.runResults[i].candidates[k].stats)
  /\ \A i \in DOMAIN autoCandidates :
       Successful(autoCandidates[i].profile, autoCandidates[i].stats)

\* C9: the published summary, best profile and best parameters are those of
\* one per-prompt run, whose best mean latency is the least of all the runs
C9_PublishedBestIsTheLowestRun ==
  autoSummary # Null =>
    \E i \in DOMAIN rt.runResults :
      /\ autoSummary = Some(rt.runResults[i].summary)
      /\ autoBestProfile = Some(rt.runResults[i].bestProfileForm)
      /\ autoBestParameters = rt.runResults[i].bestParameters
      /\ \A j \in DOMAIN rt.runResults :
           rt.runResults[i].summary.best.stats.averageLatency
             <= rt.runResults[j].summary.best.stats.averageLatency

\* C9, reached: two prompts were run, the first with best mean 150 ms and the
\* second with 90 ms, and the summary of the second is published
C9_Witness ==
  /\ autoSummary # Null
  /\ Len(rt.runResults) = 2
  /\ rt.runResults[1].summary.best.stats.averageLatency = Latencies.speculative * AvgScale
  /\ rt.runResults[2].summary.best.stats.averageLatency = Latencies.fast * AvgScale
  /\ autoSummary = Some(rt.runResults[2].summary)

\* C10 (as claimed): the journal published after a run of several prompts is
\* the journals of the prompts one after the other, in the order of the runs
\* and of the evaluations, each label annotated with the prompt
C10_JournalIsConcatenation ==
  (autoSummary # Null /\ Len(rt.runResults) > 1) => autoSteps = FlatSteps(rt.runResults)

\* the steps of a journal with improvement k, in their order
WithImprovement(journal, k) == SelectSeq(journal, LAMBDA step : step.improvement = k)

\* C10 (amended): the published journal holds every step of every prompt
\* once, its axis label annotated with the prompt, in the order of descending
\* improvement; steps of equal improvement keep the order of the concatenation
C10_JournalIsSortedByImprovement ==
  autoSummary # Null =>
    /\ Len(autoSteps) = Len(FlatSteps(rt.runResults))
    /\ \A i \in 1..(Len(autoSteps) - 1) :
         autoSteps[i].improvement >= autoSteps[i + 1].improvement
    /\ \A i \in DOMAIN autoSteps :
         WithImprovement(autoSteps, autoSteps[i].improvement)
           = WithImprovement(FlatSteps(rt.runResults), autoSteps[i].improvement)
    /\ \A i \in DOMAIN rt.runResults : \A k \in DOMAIN rt.runResults[i].steps :
         \E n \in DOMAIN autoSteps :
           autoSteps[n] = [rt.runResults[i].steps[k] EXCEPT
                             !.parameter = @ \o <<rt.runResults[i].prompt>>]

\* C10, reached: two prompts were run and the published journal is in another
\* order than the concatenation of their journals
C10_Witness ==
  /\ autoSummary # Null
  /\ Len(rt.runResults) = 2
  /\ rt.runResults[1].steps # <<>> /\ rt.runResults[2].steps # <<>>
  /\ autoSteps # FlatSteps(rt.runResults)

\* C11 (as claimed): one run of the auto mode optimizes no prompt text twice:
\* the prompts it runs, and the prompts of the results it has, are distinct
C11_EachPromptOptimizedOnce ==
  /\ \A i, j \in DOMAIN rt.promptsToRun :
       i # j => rt.promptsToRun[i] # rt.promptsToRun[j]
  /\ \A i, j \in DOMAIN rt.runResults :
       i # j => rt.runResults[i].prompt # rt.runResults[j].prompt

RECURSIVE ProductOfCounts(_)
ProductOfCounts(defs) ==
  IF defs = <<>> THEN 1 ELSE Len(Head(defs).values) * ProductOfCounts(Tail(defs))

\* a combination that assigns one of the axis' values to each axis, in the order of the axes
AssignsEachAxis(combo, defs) ==
  /\ Len(combo) = Len(defs)
  /\ \A k \in DOMAIN defs :
       combo[k].key = defs[k].key /\ combo[k].value \in Range(defs[k].values)

\* C12 (as claimed): for a variation text that compiles, cartesianProduct returns
\* as many combinations as the product of the axes' value counts, the
\* combinations are pairwise distinct, each assigns one value to each axis, and
\* the empty axis list gives exactly the one empty combination
C12_ProductOfDistinctMappings ==
  Done("cartesianProduct") /\ call[1].out[1].ok =>
    LET defs == call[1].out[1].defs
        combos == call[1].out[1].combos
    IN /\ Len(combos) = ProductOfCounts(defs)
       /\ \A i, j \in DOMAIN combos : i # j => combos[i] # combos[j]
       /\ \A i \in DOMAIN combos : AssignsEachAxis(combos[i], defs)
       /\ defs = <<>> => combos = << <<>> >>
       /\ combos = cartesianProduct(defs)

\* C13 (as claimed): applyOverrides(p, {}) returns a profile equal to p in every
\* attribute, the identity included
C13_EmptyOverridesReturnEqualProfile ==
  Done("applyOverrides") /\ call[1].arg.overrides = <<>> /\ call[1].arg.nameSuffix = "" =>
    LET out == call[1].out[1] IN
    out.result # Null /\ Load(out.heap, out.result[1]) = call[1].arg.profile

\* C13 (amended): applyOverrides(p, {}) returns a profile with a new identity
\* that equals p in name, description, samples, speculative, options and
\* settings; a returned profile shares no object with p; p is unchanged after
\* every call, also when the call throws
C13_CopyHasNewIdentityAndSharesNothing ==
  Done("applyOverrides") =>
    LET arg == call[1].arg
        out == call[1].out[1]
    IN /\ arg.overrides = <<>> /\ arg.nameSuffix = "" =>
            /\ out.result # Null
            /\ Load(out.heap, out.result[1]).id # arg.profile.id
            /\ Load(out.heap, out.result[1]) =
                 [arg.profile EXCEPT !.id = Load(out.heap, out.result[1]).id]
       /\ out.result # Null =>
            /\ Parts(out.heap, out.result[1]) \cap Parts(out.before, out.argument) = {}
            /\ Load(out.heap, out.result[1]) = out.profile
       /\ out.thrown = (out.result = Null)
       /\ \A a \in Parts(out.before, out.argument) : out.heap[a] = out.before[a]
       /\ Load(out.heap, out.argument) = arg.profile

\* C13, reached: the empty mapping was applied to the profile that has settings,
\* and the copy was returned
C13_Witness ==
  /\ Done("applyOverrides")
  /\ call[1].arg.overrides = <<>> /\ call[1].arg.nameSuffix = ""
  /\ call[1].out[1].result # Null
  /\ call[1].arg.profile.settings["llm_model_path"] # Empty

\* the keys applyOverrides knows, after normalizeKey
RecognizedKeys == Range(OPTION_KEYS) \cup Range(SETTING_KEYS) \cup {"speculative", "samples"}

\* C17 (as claimed): applyOverrides throws for every mapping that has a key
\* outside the recognized set, whatever the value of that key, and returns no
\* profile then
C17_UnknownKeyAlwaysThrows ==
  Done("applyOverrides")
    /\ (\E i \in DOMAIN call[1].arg.overrides :
          normalizeKey(call[1].arg.overrides[i].key) \notin RecognizedKeys)
  => ~call[1].out[1].ok /\ call[1].out[1].thrown /\ call[1].out[1].result = Null

\* a text that is not empty and that Number() reads as a finite number
IsNumeral(text) == text # Empty /\ text.d >= 0

\* the field of the descriptor for a text of the form: present with the number
\* of the text (its integer part for an integer key) exactly for a numeral
FieldFollowsText(key, text, field) ==
  /\ field.set = IsNumeral(text)
  /\ field.set => field.n = (IF key \in INTEGER_KEYS THEN Trunc(text.v) ELSE text.v)
  /\ ~field.set => field = Absent

\* C16: profileFormToDescriptor puts a sampling option or a numeric backend
\* setting in the descriptor if and only if the text of the form is not empty and
\* parses to a finite number; a field that is empty or does not parse is absent
C16_NumericFieldsPresentIffNumeral ==
  Done("profileFormToDescriptor") =>
    LET form == call[1].arg
        descriptor == call[1].out[1]
    IN /\ \A key \in Range(OPTION_KEYS) :
            FieldFollowsText(key, form.options[key], descriptor.options[key])
       /\ \A key \in NUMERIC_SETTINGS :
            FieldFollowsText(key, form.settings[key], descriptor.settings[key])

\* C16, reached: a form with an empty option, a word in a setting and a numeral
\* elsewhere has its descriptor, with the numeral in it
C16_Witness ==
  /\ Done("profileFormToDescriptor")
  /\ call[1].arg.options["top_k"] = Empty
  /\ call[1].arg.options["temperature"] = Dec(Unit + Unit \div 2, 1)
  /\ call[1].arg.settings["llm_n_gpu_layers"] = Word("abc")
  /\ call[1].out[1].options.temperature = Present(Unit + Unit \div 2)
  /\ ~call[1].out[1].options.top_k.set
  /\ ~call[1].out[1].settings.llm_n_gpu_layers.set

\* C14: every configuration patch that the apply action submits holds only keys
\* of the backend settings whose field of the chosen form is set and not empty
\* (the flag of speculative decoding is always set): it holds no sampling option
\* and no setting that the form leaves empty
C14_PatchHoldsOnlySetSettings ==
  \A request \in configRequests :
    \A i \in DOMAIN request.patch :
      LET key == request.patch[i].key IN
      /\ key \notin Range(OPTION_KEYS) \cup {"samples", "name", "description"}
      /\ key = "llm_speculative_enabled" \/ key \in Range(SETTING_KEYS)
      /\ key = "llm_speculative_enabled" =>
           request.patch[i].value = request.profile.speculative
      /\ key \in Range(SETTING_KEYS) =>
           /\ request.profile.settings[key] # Empty
           /\ request.patch[i].value.set

\* C14, reached: two patches are outstanding; one is of a form that has
\* sampling options and a model path and holds the model path, the other is of a
\* form whose context size is no number and holds the flag alone
C14_Witness ==
  /\ \E request \in configRequests :
       /\ request.profile.options["temperature"] # Empty
       /\ request.profile.settings["llm_model_path"] = Word("a")
       /\ request.profile.settings["llm_n_gpu_layers"] = Empty
       /\ \E i \in DOMAIN request.patch : request.patch[i].key = "llm_model_path"
       /\ Len(request.patch) = 2
  /\ \E request \in configRequests :
       /\ request.profile.settings["llm_context_tokens"] = Word("abc")
       /\ Len(request.patch) = 1

\* a step of the apply action: the button is pressed, or api.updateConfig is
\* answered or rejected
ApplyStep == HandleApplyProfileToConfig \/ ConfigUpdated \/ ConfigRejected

\* C15: a step of the apply action, accepted or rejected, leaves the step
\* journal, the ranking, the summary, the best profile and the history as they
\* are; of the state of the page it changes the apply status alone
C15_ApplyChangesOnlyItsStatus ==
  [][ApplyStep =>
       /\ UNCHANGED <<autoSteps, autoCandidates, autoSummary, autoBestProfile, autoHistory>>
       /\ UNCHANGED <<autoBestParameters, autoRunning, autoError, profiles, response, running,
                      error, generatorError, inputVars>>]_vars

\* C15, reached: two apply actions have ended, the last one rejected without a
\* detail, and the results of the run are on the page
C15_Witness ==
  /\ applyActions = 2 /\ configRequests = {}
  /\ applyStatus = Some("Echec de la mise a jour de la configuration.")
  /\ autoSteps # <<>> /\ autoCandidates # <<>> /\ autoSummary # Null
  /\ autoBestProfile # Null /\ autoHistory # <<>>

\* the step sizes a cascade can have: initialStep, its half and the FINE_STEPS
CascadeLength == 2 + Len(FINE_STEPS)

\* the requests the claim allows after the baseline: for each axis its distinct
\* declared values and, for each step size, GUARD_LIMIT iterations of two probes
RequestBound(m) ==
  SumSeq([d \in DOMAIN m.defs |->
            Cardinality({normalizeValueKey(v) : v \in Range(m.defs[d].values)})
            + CascadeLength * GUARD_LIMIT * Len(DIRECTIONS)])

\* the probes of one iteration of the climb loop
ProbesOfIteration(m, d, s, g) ==
  {k \in DOMAIN m.requests :
     /\ m.requests[k].from = "refine" /\ m.requests[k].def = d
     /\ m.requests[k].step = s /\ m.requests[k].guard = g}

WithinBounds(m) ==
  /\ m.guard <= GUARD_LIMIT
  /\ Len(m.stepCandidates) <= CascadeLength
  /\ \A k \in DOMAIN m.requests :
       m.requests[k].from = "refine" =>
         /\ m.requests[k].guard \in 1..GUARD_LIMIT
         /\ m.requests[k].step \in 1..CascadeLength
         /\ Cardinality(ProbesOfIteration(m, m.requests[k].def, m.requests[k].step,
                                          m.requests[k].guard)) <= Len(DIRECTIONS)
  /\ 1 + Len(m.requests) <= 1 + RequestBound(m)

\* C18: the optimization of one prompt ends when every call is answered: every
\* answer either ends the run or is followed by exactly one more request, and
\* the requests stay within the bound: per axis and step size at most
\* GUARD_LIMIT iterations of at most two probes, so at most 1 + the sum over the
\* axes of (distinct declared values + 8 * 10 * 2) requests in all
C18_EveryAnswerEndsOrUsesTheBound ==
  [][at' # at =>
       /\ WithinBounds(at')
       /\ at.pc \in {"baseline", "await"} =>
            \/ at'.pc \in {"return", "threw"}
            \/ /\ at'.pc = "await"
               /\ Len(at'.requests) = Len(at.requests) + 1
               /\ SubSeq(at'.requests, 1, Len(at.requests)) = at.requests]_vars

\* C18, reached: a run has ended in which a climb used all GUARD_LIMIT
\* iterations and another iteration made two probes
C18_Witness ==
  /\ at.pc = "return"
  /\ \E k \in DOMAIN at.requests :
       at.requests[k].from = "refine" /\ at.requests[k].guard = GUARD_LIMIT
  /\ \E k \in DOMAIN at.requests :
       /\ at.requests[k].from = "refine"
       /\ Cardinality(ProbesOfIteration(at, at.requests[k].def, at.requests[k].step,
                                        at.requests[k].guard)) = 2

\* C19 (as claimed): the step sizes of the cascade of an axis are used in
\* strictly decreasing order: of two refinement probes of the axis made with
\* different step sizes, the later one has the smaller step size
C19_StepSizesDecrease ==
  \A i, j \in DOMAIN at.requests :
    (/\ i < j
     /\ at.requests[i].from = "refine" /\ at.requests[j].from = "refine"
     /\ at.requests[i].def = at.defIdx /\ at.requests[j].def = at.defIdx
     /\ at.requests[i].step # at.requests[j].step)
    => at.stepCandidates[at.requests[i].step] > at.stepCandidates[at.requests[j].step]

\* the value that the axis key has in a form: the number of its option or
\* setting, the sample count, or 1 and 0 for speculative decoding on and off
AxisValue(form, key) ==
  IF key = "samples" THEN parseFloatLoose(form.samples)
  ELSE IF key = "speculative" THEN Num(IF form.speculative THEN Unit ELSE 0)
  ELSE IF key \in Range(OPTION_KEYS) THEN parseFloatLoose(form.options[key])
  ELSE IF key \in Range(SETTING_KEYS) THEN parseFloatLoose(form.settings[key])
  ELSE Undefined

\* C20 (as claimed): every refinement probe of an axis has the value that the
\* axis has in bestProfileForm, plus or minus the current step size
C20_ProbeIsCentredOnBestValue ==
  at.pc = "await" /\ at.pending.from = "refine" =>
    LET centre == AxisValue(at.bestProfileForm, at.defs[at.defIdx].key)
        fineStep == at.stepCandidates[at.stepIdx]
    IN centre.ok => Abs(NumberOf(at.pending.valueLabel) - centre.n) = fineStep

\* a form with the field of an axis key blanked, and with its identifier blanked
WithoutAxis(form, key) ==
  IF key = "speculative" THEN [form EXCEPT !.speculative = FALSE]
  ELSE IF key = "samples" THEN [form EXCEPT !.samples = Empty]
  ELSE IF key \in Range(OPTION_KEYS) THEN [form EXCEPT !.options[key] = Empty]
  ELSE IF key \in Range(SETTING_KEYS) THEN [form EXCEPT !.settings[key] = Empty]
  ELSE form
WithoutId(form) == [form EXCEPT !.id = 0]

\* C21 (as claimed): the candidate of an outstanding request is equal to
\* bestProfileForm in every field but the one of the current axis
C21_CandidateIsBestButAxis ==
  at.pc = "await" =>
    WithoutAxis(at.pending.candidateProfile, at.defs[at.defIdx].key)
      = WithoutAxis(at.bestProfileForm, at.defs[at.defIdx].key)

\* C21 (amended): whenever a candidate is requested, in the sweep or in the
\* refinement, it is a copy of the bestProfileForm held at that moment with an
\* identifier of its own and equal to it in every other field but the one of
\* the current axis; bestProfileForm changes only by taking the candidate that
\* was just evaluated, so what an earlier axis adopted is in every later
\* candidate
C21_CandidateIsCopyOfBestButAxis ==
  [][/\ at'.pc = "await" =>
          /\ at'.pending.candidateProfile.id # at'.bestProfileForm.id
          /\ WithoutId(WithoutAxis(at'.pending.candidateProfile, at'.defs[at'.defIdx].key))
               = WithoutId(WithoutAxis(at'.bestProfileForm, at'.defs[at'.defIdx].key))
     /\ (Evaluated /\ at'.bestProfileForm # at.bestProfileForm) =>
          at'.bestProfileForm = at.pending.candidateProfile]_vars

\* C21, reached: the sweep of a first axis (top_k) adopted a value that the base
\* profile does not have, and a candidate of the next axis (speculative) is
\* requested that has it
C21_Witness ==
  /\ at.pc = "await" /\ at.defIdx = 2
  /\ at.defs[1].key = "top_k" /\ at.defs[2].key = "speculative"
  /\ at.bestProfileForm.options["top_k"] # at.baseProfile.options["top_k"]
  /\ at.pending.candidateProfile.options["top_k"] = at.bestProfileForm.options["top_k"]
  /\ at.pending.candidateProfile.speculative # at.bestProfileForm.speculative

\* the mean latencies a summary has to choose from: the one of the baseline
\* and those of the successful steps of the journal
MeansOf(summary) ==
  {summary.baseline.stats.averageLatency}
  \cup {summary.steps[i].stats.averageLatency :
          i \in {k \in DOMAIN summary.steps : summary.steps[k].success}}
Least(means) == CHOOSE x \in means : \A y \in means : x <= y

\* the evaluations of the run that ended in m, in their order (the baseline,
\* then every successful candidate), and the first of them with mean latency avg
FirstWithMean(m, avg) ==
  m.candidateRecords[CHOOSE k \in DOMAIN m.candidateRecords :
    /\ m.candidateRecords[k].stats.averageLatency = avg
    /\ \A j \in 1..(k - 1) : m.candidateRecords[j].stats.averageLatency # avg]

\* C22: in the result of every per-prompt run the best mean latency is the
\* least of the baseline's mean and the means of the successful steps of the
\* journal; and when a run has ended, its bestProfileForm and best.profile are
\* the form and the result of the first evaluation (baseline included) whose
\* mean is that least one
C22_BestIsTheFirstMinimum ==
  /\ \A i \in DOMAIN rt.runResults :
       rt.runResults[i].summary.best.stats.averageLatency
         = Least(MeansOf(rt.runResults[i].summary))
  /\ (at.pc = "return" /\ rt.runResults # <<>>) =>
       LET result == LastOf(rt.runResults)
           first == FirstWithMean(at, Least(MeansOf(result.summary)))
       IN /\ result.summary.steps = at.steps
          /\ result.summary.best.stats = first.stats
          /\ result.summary.best.profile = first.profile
          /\ result.bestProfileForm = first.profileForm

\* C22, reached: a run has ended in which two candidates had the least mean,
\* below the baseline's, and the best is the earlier of the two
C22_Witness ==
  /\ at.pc = "return" /\ rt.runResults # <<>>
  /\ at.bestStats.averageLatency < at.baselineStats.averageLatency
  /\ \E i, j \in DOMAIN at.candidateRecords :
       /\ i < j
       /\ at.candidateRecords[i].stats.averageLatency = at.bestStats.averageLatency
       /\ at.candidateRecords[j].stats.averageLatency = at.bestStats.averageLatency
       /\ at.candidateRecords[i].profileForm = LastOf(rt.runResults).bestProfileForm
       /\ at.candidateRecords[j].profileForm # LastOf(rt.runResults).bestProfileForm

\* C23 (as claimed): the improvement of the step that an evaluation appends is
\* the best mean held before it minus the candidate's mean, and it is positive
\* exactly when the candidate was adopted as the new best
C23_PositiveImprovementIffAdopted ==
  [][Evaluated =>
       LET step == LastOf(at'.steps) IN
       /\ step.improvement = at.bestStats.averageLatency - step.stats.averageLatency
       /\ step.improvement > 0 <=>
            /\ at'.bestProfileForm = at.pending.candidateProfile
            /\ at'.bestStats = step.stats
            /\ at'.bestResult = at'.last.candidate]_vars

\* C24 (as claimed): the published ranking is in ascending order of mean
\* latency, no two of its records have the same (prompt, parameter, value,
\* rounded mean) tuple, and unless it was cut to TOP_CANDIDATES it has a
\* record for the tuple of every record that the runs returned
C24_RankingSortedAndUnique ==
  autoSummary # Null =>
    /\ \A i \in 1..(Len(autoCandidates) - 1) :
         autoCandidates[i].stats.averageLatency <= autoCandidates[i + 1].stats.averageLatency
    /\ \A i, j \in DOMAIN autoCandidates :
         i # j => CandidateKey(autoCandidates[i]) # CandidateKey(autoCandidates[j])
    /\ Len(autoCandidates) < TOP_CANDIDATES =>
         \A r \in DOMAIN rt.runResults : \A k \in DOMAIN rt.runResults[r].candidates :
           \E i \in DOMAIN autoCandidates :
             CandidateKey(autoCandidates[i]) = CandidateKey(rt.runResults[r].candidates[k])

\* the variation text compiles and applyOverrides accepts each declared value
\* of each of its axes on the base profile
ValidInput(matrix, base) ==
  LET parsed == parseVariationInput(matrix) IN
  /\ parsed.ok
  /\ \A d \in DOMAIN parsed.defs : \A i \in DOMAIN parsed.defs[d].values :
       applyOverrides(base, <<[key |-> parsed.defs[d].key, value |-> parsed.defs[d].values[i]]>>,
                      "", 0).ok

\* C25 (as claimed): a run of the auto mode on a valid input does not end with
\* an input error
C25_ValidInputNeverThrows ==
  (launches > 0 /\ prompt # "" /\ ValidInput(rt.matrix, rt.base)) =>
    ~(at.pc = "threw" /\ at.error \in INPUT_ERRORS)

\* a per-prompt result in which the baseline or a candidate was successful
HasSuccess(result) ==
  \/ Successful(result.summary.baseline.profile, result.summary.baseline.stats)
  \/ \E k \in DOMAIN result.summary.steps : result.summary.steps[k].success

\* C26 (as claimed): the best of a per-prompt run that had a successful
\* evaluation is a successful evaluation, and so is the published best when a
\* run had one
C26_BestIsSuccessful ==
  /\ \A i \in DOMAIN rt.runResults :
       HasSuccess(rt.runResults[i]) =>
         Successful(rt.runResults[i].summary.best.profile, rt.runResults[i].summary.best.stats)
  /\ (autoSummary # Null /\ \E i \in DOMAIN rt.runResults : HasSuccess(rt.runResults[i])) =>
       Successful(autoSummary[1].best.profile, autoSummary[1].best.stats)

\* C27 (as claimed): in the run of one prompt no two requests of one axis
\* carry the same descriptor
C27_NoDescriptorRequestedTwice ==
  \A i, j \in DOMAIN at.requests :
    (i < j /\ at.requests[i].def = at.requests[j].def) =>
      at.requests[i].descriptor # at.requests[j].descriptor

NO_PARAMETER == "Aucun parametre a optimiser"

Underway(m) == m.pc \in {"baseline", "await"}

NOTHING_TO_APPLY == "Aucun parametre a appliquer."

\* the entries of a patch for the flag of speculative decoding
FlagEntries(patch) == {i \in DOMAIN patch : patch[i].key = "llm_speculative_enabled"}

\* C30: the patch of every profile that an apply button can pass has one entry
\* llm_speculative_enabled, whose value is the speculative flag of the profile;
\* an apply action on such a profile submits exactly one configuration update,
\* with that patch, and the status is never the one of an empty patch
C30_ApplySubmitsTheSpeculativeFlag ==
  [][/\ \A chosen \in ApplyTargets \ {Null} :
          LET patch == ConfigPatch(profileFormToDescriptor(chosen[1], 0)) IN
          /\ Cardinality(FlagEntries(patch)) = 1
          /\ \A i \in FlagEntries(patch) : patch[i].value = chosen[1].speculative
     /\ applyStatus' # Some(NOTHING_TO_APPLY)
     /\ applyActions' # applyActions =>
          /\ Cardinality(configRequests' \ configRequests) = 1
          /\ configRequests \subseteq configRequests'
          /\ \A request \in configRequests' \ configRequests :
               /\ Some(request.profile) \in ApplyTargets
               /\ request.patch = ConfigPatch(profileFormToDescriptor(request.profile, 0))
               /\ request.patch # <<>>
               /\ \E i \in DOMAIN request.patch :
                    request.patch[i] = [key |-> "llm_speculative_enabled",
                                        value |-> request.profile.speculative]]_vars

\* C30, reached: the apply action was used on a profile without speculative
\* decoding and without any written setting; its update is outstanding and its
\* patch is the flag, set to false, alone
C30_Witness ==
  /\ applyStatus = Some("Mise a jour en cours...")
  /\ \E request \in configRequests :
       /\ ~request.profile.speculative
       /\ \A key \in Range(SETTING_KEYS) : request.profile.settings[key] = Empty
       /\ request.patch = <<[key |-> "llm_speculative_enabled", value |-> FALSE]>>

====
